---- MODULE Spec2Model ----
(***************************************************************************)
(* The playingInfo bridge of TidaLuna: the host-side command server        *)
(* (src/plugins/playingInfo/src/server.native.ts) with its track-info      *)
(* cache, position extrapolation, command normalisation and dispatch.      *)
(*                                                                         *)
(* Representation.                                                         *)
(*  - A JavaScript string is a sequence of one-character strings, so that  *)
(*    toLowerCase() and Number() are computed character by character.      *)
(*  - A JavaScript number is a record [kind, v]: kind "num" (finite),      *)
(*    "nan", "inf" (+Infinity), "ninf" (-Infinity); "undefined" is the     *)
(*    absent value.  A finite number of seconds is carried as an integer   *)
(*    count of thousandths (FixedScale per second), so that the division   *)
(*    of a millisecond difference by 1000 is exact.  Wall-clock times are  *)
(*    integer milliseconds.                                                *)
(***************************************************************************)
EXTENDS Integers, Sequences, FiniteSets, TLC

VARIABLES
    server,                      \* server.native.ts:15   "undefined" | "Server"
    portBound,                   \* the http.Server holds its listening handle
    closeCallbacks,              \* callbacks given to server.close(), not yet called
    trackInfoListenerRegistered, \* server.native.ts:22
    ipcListeners,                \* registrations of trackInfoListener on ipcMain
    latestTrackInfo,             \* server.native.ts:21   the host cache
    tidalWindow,                 \* globalThis.luna.tidalWindow is defined
    commandChannel,              \* messages sent on "__luna/playnowinfo/command"
    now,                         \* Date.now(), milliseconds
    reqCount,                    \* requests handled so far
    lastRequest,                 \* the request handled last
    lastResponse,                \* the response written for it
    everReceived,                \* history: trackInfoListener has run
    lastReceived,                \* history: the payload it ran on last
    receivedOlder,               \* history: that payload was stamped earlier than the cache
    refused,                     \* history: ids of requests answered 503
    restarted,                   \* history: a server was created since the last payload arrived
    commandsHandled,             \* command messages the renderer has handled (index.ts:136)
    dom,                         \* selectors that match a button of the document
    clicked,                     \* history: per handled message, the selector clicked or "none"
    calls,                       \* history: lifecycle calls and deliveries with their outcomes
    heldTrackInfo,               \* the renderer's latestTrackInfo (index.ts:140)
    trackInfoChannel,            \* trackInfo messages in flight, oldest first
    pending,                     \* logTrackDetails calls waiting for their accessors
    activeMediaItem,             \* id of the renderer's activeMediaItem (index.ts:142)
    activeDurationSeconds,       \* index.ts:143
    heardLatest,                 \* history: the renderer's last publish has reached the host
    openConnections              \* connections server.close() left open

vars == <<server, portBound, closeCallbacks, trackInfoListenerRegistered,
          ipcListeners, latestTrackInfo, tidalWindow, commandChannel, now,
          reqCount, lastRequest, lastResponse, everReceived, lastReceived,
          receivedOlder, refused, restarted, commandsHandled, dom, clicked,
          calls, heldTrackInfo, trackInfoChannel, pending, activeMediaItem,
          activeDurationSeconds, heardLatest, openConnections>>

----------------------------------------------------------------------------
(* Bounds of the model *)

\* Number of clock steps of TickMs milliseconds that pass while one cached
\* payload is read (SpecEstimate).
MaxTicks == 4

\* Number of clock steps that pass in the system model (Spec).
SysTicks == 1

\* Length of one clock step, in milliseconds.
TickMs == 500

\* Number of HTTP requests handled in one behaviour.
MaxRequests == 2

\* Number of server.close() callbacks that may be outstanding at once.
MaxPendingStops == 2
MaxCalls == 5
MaxInFlight == 2
MaxPending == 2
MaxConnections == 1

----------------------------------------------------------------------------
(* JavaScript values *)

\* (Date.now() - updatedAt) / 1000 : milliseconds per second.
MsPerSecond == 1000

\* Thousandths carried per second by a finite number of seconds.
FixedScale == MsPerSecond

JsNum(n) == [kind |-> "num", v |-> n]
JsNaN == [kind |-> "nan", v |-> 0]
JsInf == [kind |-> "inf", v |-> 0]
JsNegInf == [kind |-> "ninf", v |-> 0]
JsUndefined == [kind |-> "undefined", v |-> 0]

\* typeof x === "number"
TypeofNumber(x) == x.kind \in {"num", "nan", "inf", "ninf"}

\* Number.isNaN(x)
NumberIsNaN(x) == x.kind = "nan"

\* Number.isFinite(x)
NumberIsFinite(x) == x.kind = "num"

UpperCase == <<"A","B","C","D","E","F","G","H","I","J","K","L","M",
               "N","O","P","Q","R","S","T","U","V","W","X","Y","Z">>
LowerCase == <<"a","b","c","d","e","f","g","h","i","j","k","l","m",
               "n","o","p","q","r","s","t","u","v","w","x","y","z">>

ToLowerChar(c) ==
    IF \E i \in 1..Len(UpperCase) : UpperCase[i] = c
    THEN LowerCase[CHOOSE i \in 1..Len(UpperCase) : UpperCase[i] = c]
    ELSE c

ToUpperChar(c) ==
    IF \E i \in 1..Len(LowerCase) : LowerCase[i] = c
    THEN UpperCase[CHOOSE i \in 1..Len(LowerCase) : LowerCase[i] = c]
    ELSE c

\* String.prototype.toLowerCase on a string of ASCII characters.
toLowerCase(s) == [i \in 1..Len(s) |-> ToLowerChar(s[i])]

Digits == <<"0","1","2","3","4","5","6","7","8","9">>

IsDigit(c) == \E i \in 1..Len(Digits) : Digits[i] = c

DigitValue(c) == (CHOOSE i \in 1..Len(Digits) : Digits[i] = c) - 1

AllDigits(s) == \A i \in 1..Len(s) : IsDigit(s[i])

RECURSIVE DecimalValue(_)
\* The value of a string of decimal digits.
DecimalValue(s) ==
    IF Len(s) = 0 THEN 0
    ELSE DecimalValue(SubSeq(s, 1, Len(s) - 1)) * 10 + DigitValue(s[Len(s)])

RECURSIVE Pow10(_)
Pow10(n) == IF n = 0 THEN 1 ELSE 10 * Pow10(n - 1)

\* Digits of FixedScale after the decimal point that a number of seconds keeps.
FractionDigits == CHOOSE n \in 0..6 : Pow10(n) = FixedScale

\* The value, in 1/FixedScale, of the digits after a decimal point.
FractionValue(s) ==
    IF Len(s) >= FractionDigits
    THEN DecimalValue(SubSeq(s, 1, FractionDigits))
    ELSE DecimalValue(s) * Pow10(FractionDigits - Len(s))

RECURSIVE TrimLeft(_)
TrimLeft(s) == IF Len(s) > 0 /\ s[1] = " " THEN TrimLeft(Tail(s)) ELSE s

RECURSIVE TrimRight(_)
TrimRight(s) ==
    IF Len(s) > 0 /\ s[Len(s)] = " "
    THEN TrimRight(SubSeq(s, 1, Len(s) - 1)) ELSE s

InfinityLiteral == <<"I","n","f","i","n","i","t","y">>

\* An unsigned StrDecimalLiteral: Infinity, digits, digits.digits, digits., .digits
UnsignedNumber(s) ==
    IF s = InfinityLiteral THEN JsInf
    ELSE IF Len(s) = 0 THEN JsNaN
    ELSE IF AllDigits(s) THEN JsNum(DecimalValue(s) * FixedScale)
    ELSE IF \E i \in 1..Len(s) : s[i] = "."
    THEN LET dot == CHOOSE i \in 1..Len(s) : s[i] = "."
             whole == SubSeq(s, 1, dot - 1)
             frac == SubSeq(s, dot + 1, Len(s))
         IN  IF AllDigits(whole) /\ AllDigits(frac) /\ Len(whole) + Len(frac) > 0
             THEN JsNum(DecimalValue(whole) * FixedScale + FractionValue(frac))
             ELSE JsNaN
    ELSE JsNaN

\* Number(string): StringToNumber over the characters 0-9 . + - space and
\* letters other than e, x, o, b (no exponent, hex, octal or binary literal).
Number(s) ==
    LET t == TrimRight(TrimLeft(s))
    IN  IF Len(t) = 0 THEN JsNum(0)
        ELSE IF t[1] = "+" THEN UnsignedNumber(Tail(t))
        ELSE IF t[1] = "-"
        THEN LET u == UnsignedNumber(Tail(t))
             IN  CASE u.kind = "num" -> JsNum(0 - u.v)
                   [] u.kind = "inf" -> JsNegInf
                   [] OTHER -> u
        ELSE UnsignedNumber(t)

\* Math.min on two finite numbers.
MathMin(a, b) == IF a <= b THEN a ELSE b

----------------------------------------------------------------------------
(* Track payloads (types.ts) *)

Undefined == [kind |-> "undefined"]

\* The strings used as the duration field of a payload.
str_0 == <<"0">>
str_2 == <<"2">>
str_1_5 == <<"1", ".", "5">>
str_empty == <<>>
str_junk == <<"n", "a">>
str_minus3 == <<"-", "3">>
str_padded == <<" ", "2", " ">>

\* TrackUpdatePayload (types.ts:1-12) of track A, with the given duration string.
TrackA(duration) ==
    [album |-> "Album A", artist |-> "Artist A", audioquality |-> "LOSSLESS",
     duration |-> duration, imgurl |-> "aa/bb", isrc |-> "ISRC-A",
     popularity |-> "10", releasedate |-> "2020-01-01", title |-> "Title A",
     trackid |-> "1001"]

\* TrackUpdatePayload of track B: every field differs from track A's.
TrackB(duration) ==
    [album |-> "Album B", artist |-> "Artist B", audioquality |-> "HIGH",
     duration |-> duration, imgurl |-> "cc/dd", isrc |-> "",
     popularity |-> "Unknown", releasedate |-> "Unknown", title |-> "Title B",
     trackid |-> "1002"]

\* TrackStatusPayload (types.ts:14-17) with the positionUpdatedAt stamp that
\* publishTrackInfo's callers add (index.ts:180, index.ts:189).
\* positionSeconds is in 1/FixedScale seconds.
StatusPayload(track, status, positionSeconds, positionUpdatedAt) ==
    [album |-> track.album, artist |-> track.artist,
     audioquality |-> track.audioquality, duration |-> track.duration,
     imgurl |-> track.imgurl, isrc |-> track.isrc,
     popularity |-> track.popularity, releasedate |-> track.releasedate,
     title |-> track.title, trackid |-> track.trackid,
     status |-> status, positionSeconds |-> positionSeconds,
     positionUpdatedAt |-> positionUpdatedAt]

MetadataFields ==
    {"album", "artist", "audioquality", "duration", "imgurl", "isrc",
     "popularity", "releasedate", "title", "trackid"}

\* The wall-clock times of the model.
Times == {i * TickMs : i \in 0..MaxTicks}

DurationStrings ==
    {str_0, str_2, str_1_5, str_empty, str_junk, InfinityLiteral, str_minus3,
     str_padded}

Statuses == {"PLAYING", "PAUSED", "NOT_PLAYING"}

\* positionSeconds values, in 1/FixedScale seconds.
Positions == {0, 500, 1800, 2500}

UpdatedAts == {JsNum(0), JsNum(2 * TickMs), JsNum(MaxTicks * TickMs), JsUndefined, JsNaN}

\* The payloads the position estimate is read on.
EstimatePayloads ==
    {StatusPayload(TrackA(d), st, pos, up) :
        d \in DurationStrings, st \in Statuses, pos \in Positions, up \in UpdatedAts}

\* The payloads the renderer sends in the system model.
SysPayloads ==
    {StatusPayload(TrackA(str_2), "PLAYING", 500, JsNum(TickMs)),
     StatusPayload(TrackB(str_0), "PAUSED", 1800, JsNum(0)),
     StatusPayload(TrackB(str_1_5), "PLAYING", 0, JsNum(0))}

----------------------------------------------------------------------------
(* The host cache and the position estimate *)

\* A listener that keeps the cached payload when the new one is stamped earlier.
trackInfoListener_KeepNewer(cached, payload) ==
    IF /\ cached # Undefined
       /\ cached.positionUpdatedAt.kind = "num"
       /\ payload.positionUpdatedAt.kind = "num"
       /\ payload.positionUpdatedAt.v < cached.positionUpdatedAt.v
    THEN cached
    ELSE payload

trackInfoListener_KeepFirst(cached, payload) ==
    IF cached # Undefined THEN cached ELSE payload

\* trackInfoListener (server.native.ts:24-26): the cache after a payload arrives.
trackInfoListener(cached, payload) == payload

\* A clamp that compares against the wrong bound: the position is never cut.
clampPosition_NoClamp(nextPosition, durationSeconds) == nextPosition

\* server.native.ts:37: the extrapolated position, cut to a known duration.
clampPosition(nextPosition, durationSeconds) ==
    IF NumberIsFinite(durationSeconds) /\ durationSeconds.v > 0
    THEN MathMin(nextPosition, durationSeconds.v)
    ELSE nextPosition

\* The elapsed time taken as milliseconds: the division by 1000 is missing.
elapsedSeconds_NoDivision(nowMs, updatedAt) == (nowMs - updatedAt.v) * FixedScale

\* server.native.ts:33: (Date.now() - updatedAt) / 1000, in 1/FixedScale seconds.
elapsedSeconds(nowMs, updatedAt) ==
    ((nowMs - updatedAt.v) * FixedScale) \div MsPerSecond

\* getLiveTrackInfo that extrapolates in every status but PAUSED.
getLiveTrackInfo_PausedOnly(cached, nowMs) ==
    IF cached = Undefined THEN Undefined
    ELSE IF cached.status = "PAUSED" THEN cached
    ELSE LET updatedAt == cached.positionUpdatedAt
         IN  IF ~TypeofNumber(updatedAt) \/ NumberIsNaN(updatedAt) THEN cached
             ELSE LET deltaSeconds == elapsedSeconds(nowMs, updatedAt)
                  IN  IF deltaSeconds <= 0 THEN cached
                      ELSE [cached EXCEPT !.positionSeconds =
                               clampPosition(cached.positionSeconds + deltaSeconds,
                                             Number(cached.duration))]

\* getLiveTrackInfo without the check of the sign of the elapsed time.
getLiveTrackInfo_Backward(cached, nowMs) ==
    IF cached = Undefined THEN Undefined
    ELSE IF cached.status # "PLAYING" THEN cached
    ELSE LET updatedAt == cached.positionUpdatedAt
         IN  IF ~TypeofNumber(updatedAt) \/ NumberIsNaN(updatedAt) THEN cached
             ELSE LET deltaSeconds == elapsedSeconds(nowMs, updatedAt)
                  IN  [cached EXCEPT !.positionSeconds =
                          clampPosition(cached.positionSeconds + deltaSeconds,
                                        Number(cached.duration))]

\* getLiveTrackInfo that stamps the extrapolated payload with the read time.
getLiveTrackInfo_StampsRead(cached, nowMs) ==
    IF cached = Undefined THEN Undefined
    ELSE IF cached.status # "PLAYING" THEN cached
    ELSE LET updatedAt == cached.positionUpdatedAt
         IN  IF ~TypeofNumber(updatedAt) \/ NumberIsNaN(updatedAt) THEN cached
             ELSE LET deltaSeconds == elapsedSeconds(nowMs, updatedAt)
                  IN  IF deltaSeconds <= 0 THEN cached
                      ELSE [cached EXCEPT !.positionSeconds =
                               clampPosition(cached.positionSeconds + deltaSeconds,
                                             Number(cached.duration)),
                                          !.positionUpdatedAt = JsNum(nowMs)]

\* getLiveTrackInfo (server.native.ts:28-39) on cache `cached` at Date.now() = nowMs.
getLiveTrackInfo(cached, nowMs) ==
    IF cached = Undefined THEN Undefined
    ELSE IF cached.status # "PLAYING" THEN cached
    ELSE LET updatedAt == cached.positionUpdatedAt
         IN  IF ~TypeofNumber(updatedAt) \/ NumberIsNaN(updatedAt) THEN cached
             ELSE LET deltaSeconds == elapsedSeconds(nowMs, updatedAt)
                  IN  IF deltaSeconds <= 0 THEN cached
                      ELSE LET durationSeconds == Number(cached.duration)
                               nextPosition == cached.positionSeconds + deltaSeconds
                               clampedPosition == clampPosition(nextPosition, durationSeconds)
                           IN  [cached EXCEPT !.positionSeconds = clampedPosition]

----------------------------------------------------------------------------
(* Query strings (express req.query) and command normalisation *)

\* A value of req.query: absent, a string, or an array of strings (a repeated
\* parameter); "object" is a nested parameter such as ?cmd[a]=b.
QUndefined == [kind |-> "undefined", str |-> <<>>, arr |-> <<>>]
QString(s) == [kind |-> "string", str |-> s, arr |-> <<>>]
QArray(a) == [kind |-> "array", str |-> <<>>, arr |-> a]
QObject == [kind |-> "object", str |-> <<>>, arr |-> <<>>]

\* a || b in place of a ?? b: an empty string counts as absent too.
Nullish_Falsy(a, b) ==
    IF a.kind = "undefined" \/ (a.kind = "string" /\ a.str = <<>>) THEN b ELSE a

\* a ?? b
Nullish(a, b) == IF a.kind = "undefined" THEN b ELSE a

\* getQueryValue (server.native.ts:82-85)
getQueryValue(value) ==
    IF value.kind = "array"
    THEN IF Len(value.arr) = 0 THEN QUndefined ELSE QString(value.arr[1])
    ELSE value

tok_info == <<"i","n","f","o">>
tok_play == <<"p","l","a","y">>
tok_start == <<"s","t","a","r","t">>
tok_resume == <<"r","e","s","u","m","e">>
tok_stop == <<"s","t","o","p">>
tok_pause == <<"p","a","u","s","e">>
tok_halt == <<"h","a","l","t">>
tok_playtoggle == <<"p","l","a","y","t","o","g","g","l","e">>
tok_toggle == <<"t","o","g","g","l","e">>
tok_next == <<"n","e","x","t">>
tok_forward == <<"f","o","r","w","a","r","d">>
tok_prev == <<"p","r","e","v">>
tok_previous == <<"p","r","e","v","i","o","u","s">>
tok_back == <<"b","a","c","k">>
tok_jump == <<"j","u","m","p">>

\* isInfoCommand (server.native.ts:87-90)
isInfoCommand(value) ==
    IF value.kind # "string" THEN FALSE
    ELSE toLowerCase(value.str) = tok_info

\* The result of normalizeCommand for an unrecognized value.
NoCommand == "undefined"

\* normalizeCommand without toLowerCase: the aliases match in lower case only.
normalizeCommand_CaseSensitive(value) ==
    IF value.kind # "string" THEN NoCommand
    ELSE IF value.str \in {tok_play, tok_start, tok_resume, tok_stop, tok_pause,
                           tok_halt, tok_playtoggle, tok_toggle}
    THEN "playtoggle"
    ELSE IF value.str \in {tok_next, tok_forward} THEN "next"
    ELSE IF value.str \in {tok_prev, tok_previous, tok_back} THEN "prev"
    ELSE NoCommand

\* normalizeCommand whose switch has a default case returning "playtoggle".
normalizeCommand_DefaultToggle(value) ==
    IF value.kind # "string" THEN NoCommand
    ELSE LET normalized == toLowerCase(value.str)
         IN  IF normalized \in {tok_next, tok_forward} THEN "next"
             ELSE IF normalized \in {tok_prev, tok_previous, tok_back} THEN "prev"
             ELSE "playtoggle"

\* normalizeCommand (server.native.ts:92-114)
normalizeCommand(value) ==
    IF value.kind # "string" THEN NoCommand
    ELSE LET normalized == toLowerCase(value.str)
         IN  CASE normalized = tok_play -> "playtoggle"
               [] normalized = tok_start -> "playtoggle"
               [] normalized = tok_resume -> "playtoggle"
               [] normalized = tok_stop -> "playtoggle"
               [] normalized = tok_pause -> "playtoggle"
               [] normalized = tok_halt -> "playtoggle"
               [] normalized = tok_playtoggle -> "playtoggle"
               [] normalized = tok_toggle -> "playtoggle"
               [] normalized = tok_next -> "next"
               [] normalized = tok_forward -> "next"
               [] normalized = tok_prev -> "prev"
               [] normalized = tok_previous -> "prev"
               [] normalized = tok_back -> "prev"
               [] OTHER -> NoCommand

\* req.query.command ?? req.query.cmd ?? req.query.action ?? req.query.op,
\* through getQueryValue (server.native.ts:52)
commandInput(query) ==
    getQueryValue(Nullish(query.command,
                  Nullish(query.cmd, Nullish(query.action, query.op))))

\* dispatchCommand that sends before it looks for the window.
dispatchCommand_SendsAnyway(command, id) ==
    [dispatched |-> tidalWindow,
     channel |-> Append(commandChannel, [req |-> id, command |-> command])]

dispatchCommand_SendsTwice(command, id) ==
    IF ~tidalWindow
    THEN [dispatched |-> FALSE, channel |-> commandChannel]
    ELSE [dispatched |-> TRUE,
          channel |-> commandChannel \o <<[req |-> id, command |-> command],
                                          [req |-> id, command |-> command]>>]

\* dispatchCommand (server.native.ts:116-124) for request `id`: whether the
\* command was sent, and the command channel afterwards.
dispatchCommand(command, id) ==
    IF ~tidalWindow
    THEN [dispatched |-> FALSE, channel |-> commandChannel]
    ELSE [dispatched |-> TRUE,
          channel |-> Append(commandChannel, [req |-> id, command |-> command])]

\* The handler with the window test of dispatchCommand made before the info
\* branch: an info request without a renderer window is refused.
commandHandler_NeedsWindow(query, id) ==
    LET input == commandInput(query)
    IN  IF isInfoCommand(input) /\ tidalWindow
        THEN LET liveTrackInfo == getLiveTrackInfo(latestTrackInfo, now)
             IN  IF liveTrackInfo = Undefined
                 THEN [code |-> 404,
                       body |-> [status |-> "UNKNOWN", message |-> "No track data"],
                       channel |-> commandChannel]
                 ELSE [code |-> 200, body |-> liveTrackInfo,
                       channel |-> commandChannel]
        ELSE IF isInfoCommand(input)
        THEN [code |-> 503,
              body |-> [status |-> "error", message |-> "Renderer window unavailable"],
              channel |-> commandChannel]
        ELSE LET command == normalizeCommand(input)
             IN  IF command = NoCommand
                 THEN [code |-> 400,
                       body |-> [status |-> "error",
                                 message |-> "Missing or invalid command"],
                       channel |-> commandChannel]
                 ELSE LET d == dispatchCommand(command, id)
                      IN  IF ~d.dispatched
                          THEN [code |-> 503,
                                body |-> [status |-> "error",
                                          message |-> "Renderer window unavailable"],
                                channel |-> d.channel]
                          ELSE [code |-> 200,
                                body |-> [status |-> "ok", command |-> command],
                                channel |-> d.channel]

\* The handler of GET /command (server.native.ts:50-73): the response and the
\* command channel after it has run on `query` as request `id`.
commandHandler(query, id) ==
    LET input == commandInput(query)
    IN  IF isInfoCommand(input)
        THEN LET liveTrackInfo == getLiveTrackInfo(latestTrackInfo, now)
             IN  IF liveTrackInfo = Undefined
                 THEN [code |-> 404,
                       body |-> [status |-> "UNKNOWN", message |-> "No track data"],
                       channel |-> commandChannel]
                 ELSE [code |-> 200, body |-> liveTrackInfo,
                       channel |-> commandChannel]
        ELSE LET command == normalizeCommand(input)
             IN  IF command = NoCommand
                 THEN [code |-> 400,
                       body |-> [status |-> "error",
                                 message |-> "Missing or invalid command"],
                       channel |-> commandChannel]
                 ELSE LET d == dispatchCommand(command, id)
                      IN  IF ~d.dispatched
                          THEN [code |-> 503,
                                body |-> [status |-> "error",
                                          message |-> "Renderer window unavailable"],
                                channel |-> d.channel]
                          ELSE [code |-> 200,
                                body |-> [status |-> "ok", command |-> command],
                                channel |-> d.channel]

----------------------------------------------------------------------------
(* Requests of the model *)

Query(command, cmd, action, op) ==
    [command |-> command, cmd |-> cmd, action |-> action, op |-> op]

EmptyQuery == Query(QUndefined, QUndefined, QUndefined, QUndefined)

NoRequest == [id |-> 0, query |-> EmptyQuery, at |-> 0, restarted |-> FALSE]

NoResponse == [code |-> 0, body |-> [status |-> "none"]]

\* The alias table's tokens, "info", and an unrecognized token.
Aliases ==
    {tok_play, tok_start, tok_resume, tok_stop, tok_pause, tok_halt,
     tok_playtoggle, tok_toggle, tok_next, tok_forward, tok_prev,
     tok_previous, tok_back}

\* Letter-case variants of a lower-case token: as is, upper case, first
\* letter upper case, every second letter upper case.
CaseVariants(s) ==
    {s, [i \in 1..Len(s) |-> ToUpperChar(s[i])],
     [i \in 1..Len(s) |-> IF i = 1 THEN ToUpperChar(s[i]) ELSE s[i]],
     [i \in 1..Len(s) |-> IF i % 2 = 0 THEN ToUpperChar(s[i]) ELSE s[i]]}

\* Near misses of a token: last character dropped, a character added, a
\* space added in front.
NearMisses(s) ==
    {SubSeq(s, 1, Len(s) - 1), Append(s, "s"), <<" ">> \o s}

\* The tokens command normalisation is read on.
Tokens ==
    UNION {CaseVariants(s) \cup NearMisses(s) : s \in Aliases \cup {tok_info, tok_jump}}
    \cup {<<>>}

\* Requests carrying one token, or one non-string value, in parameter cmd.
TokenQueries ==
    {Query(QUndefined, QString(t), QUndefined, QUndefined) : t \in Tokens}
    \cup {Query(QUndefined, QObject, QUndefined, QUndefined), EmptyQuery}

\* The values each parameter takes in the requests on parameter priority.
ParamValues ==
    {QUndefined, QString(<<>>), QString(tok_next), QString(tok_jump),
     QString(tok_info), QArray(<<tok_prev, tok_next>>),
     QArray(<<tok_jump, tok_play>>)}

PriorityQueries ==
    {Query(a, b, c, d) : a \in ParamValues, b \in ParamValues,
                         c \in ParamValues, d \in ParamValues}

\* The requests of the system model.
SysQueries ==
    {EmptyQuery,
     Query(QString(tok_info), QUndefined, QUndefined, QUndefined),
     Query(QUndefined, QUndefined, QString(tok_next), QUndefined),
     Query(QUndefined, QString(<<"P","L","A","Y">>), QUndefined, QUndefined),
     Query(QUndefined, QUndefined, QUndefined, QString(tok_jump))}

InfoQuery == Query(QUndefined, QString(tok_info), QUndefined, QUndefined)

----------------------------------------------------------------------------
(* Actions *)

\* The variables the host's actions leave alone.
publisherVars == <<heldTrackInfo, trackInfoChannel, pending, activeMediaItem,
                   activeDurationSeconds, heardLatest>>
otherVars == <<commandsHandled, dom, clicked, calls, publisherVars>>

hostVars == <<server, portBound, closeCallbacks, trackInfoListenerRegistered,
              ipcListeners>>
cacheVars == <<latestTrackInfo, everReceived, lastReceived, receivedOlder>>
requestVars == <<reqCount, lastRequest, lastResponse, commandChannel, refused,
                 openConnections>>

\* startCommandServer without the guard of line 42.
startCommandServer_NoGuard(bindOk) ==
    /\ server' = "Server"
    /\ portBound' = bindOk
    /\ IF ~trackInfoListenerRegistered
       THEN /\ ipcListeners' = ipcListeners + 1
            /\ trackInfoListenerRegistered' = TRUE
       ELSE UNCHANGED <<ipcListeners, trackInfoListenerRegistered>>
    /\ UNCHANGED closeCallbacks
    /\ restarted' = (restarted \/ (server = "undefined" /\ everReceived))
    /\ UNCHANGED <<cacheVars, requestVars, tidalWindow, now>>

\* startCommandServer (server.native.ts:41-80).  bindOk: listen(3900) obtains
\* the port; otherwise the "error" event is logged and the handle stays set.
startCommandServer(bindOk) ==
    /\ IF server # "undefined"
       THEN UNCHANGED hostVars
       ELSE /\ server' = "Server"
            /\ portBound' = bindOk
            /\ IF ~trackInfoListenerRegistered
               THEN /\ ipcListeners' = ipcListeners + 1
                    /\ trackInfoListenerRegistered' = TRUE
               ELSE UNCHANGED <<ipcListeners, trackInfoListenerRegistered>>
            /\ UNCHANGED closeCallbacks
    /\ restarted' = (restarted \/ (server = "undefined" /\ everReceived))
    /\ UNCHANGED <<cacheVars, requestVars, tidalWindow, now>>

\* stopCommandServer without the guard of line 127: it waits for a close
\* callback whether or not a server exists.
stopCommandServer_NoGuard(held) ==
    /\ Len(closeCallbacks) < MaxPendingStops
    /\ portBound => held + reqCount <= MaxRequests
    /\ closeCallbacks' =
           Append(closeCallbacks, IF portBound THEN "resolve" ELSE "reject")
    /\ portBound' = FALSE
    /\ openConnections' = IF portBound THEN held ELSE openConnections
    /\ UNCHANGED <<server, trackInfoListenerRegistered, ipcListeners>>
    /\ UNCHANGED <<cacheVars, reqCount, lastRequest, lastResponse, commandChannel,
                   refused, tidalWindow, now, restarted>>

\* stopCommandServer up to its await (server.native.ts:126-133): server.close()
\* releases the port and keeps the callback until "close" is emitted; a server
\* that is not listening calls it back with an error.  `held` is the number
\* of connections that clients have open with an incomplete request when a
\* listening server is closed: close() leaves them open, their requests are
\* still served, and "close" is emitted after the last of them has ended.
\* Connections are followed as far as requests are: held + reqCount is at
\* most MaxRequests.
stopCommandServer(held) ==
    /\ IF server = "undefined"
       THEN UNCHANGED <<hostVars, openConnections>>
       ELSE /\ Len(closeCallbacks) < MaxPendingStops
            /\ portBound => held + reqCount <= MaxRequests
            /\ closeCallbacks' =
                   Append(closeCallbacks, IF portBound THEN "resolve" ELSE "reject")
            /\ portBound' = FALSE
            /\ openConnections' = IF portBound THEN held ELSE openConnections
            /\ UNCHANGED <<server, trackInfoListenerRegistered, ipcListeners>>
    /\ UNCHANGED <<cacheVars, reqCount, lastRequest, lastResponse, commandChannel,
                   refused, tidalWindow, now, restarted>>

\* closeEmitted in which a completed stop also clears the cache.
closeEmitted_ClearsCache ==
    /\ closeCallbacks # <<>>
    /\ openConnections = 0
    /\ closeCallbacks' = <<>>
    /\ IF \E i \in 1..Len(closeCallbacks) : closeCallbacks[i] = "resolve"
       THEN /\ server' = "undefined"
            /\ latestTrackInfo' = Undefined
            /\ IF trackInfoListenerRegistered
               THEN /\ ipcListeners' = ipcListeners - 1
                    /\ trackInfoListenerRegistered' = FALSE
               ELSE UNCHANGED <<ipcListeners, trackInfoListenerRegistered>>
       ELSE UNCHANGED <<server, ipcListeners, trackInfoListenerRegistered, latestTrackInfo>>
    /\ UNCHANGED <<portBound, everReceived, lastReceived, receivedOlder,
                   requestVars, tidalWindow, now, restarted>>

\* closeEmitted in which a completed stop leaves the listener registered.
closeEmitted_KeepsListener ==
    /\ closeCallbacks # <<>>
    /\ openConnections = 0
    /\ closeCallbacks' = <<>>
    /\ IF \E i \in 1..Len(closeCallbacks) : closeCallbacks[i] = "resolve"
       THEN server' = "undefined"
       ELSE UNCHANGED server
    /\ UNCHANGED <<ipcListeners, trackInfoListenerRegistered>>
    /\ UNCHANGED <<portBound, cacheVars, requestVars, tidalWindow, now, restarted>>

\* closeEmitted in which a rejected stop clears the handle and the listener
\* all the same.
closeEmitted_ClearsOnError ==
    /\ closeCallbacks # <<>>
    /\ openConnections = 0
    /\ closeCallbacks' = <<>>
    /\ server' = "undefined"
    /\ IF trackInfoListenerRegistered
       THEN /\ ipcListeners' = ipcListeners - 1
            /\ trackInfoListenerRegistered' = FALSE
       ELSE UNCHANGED <<ipcListeners, trackInfoListenerRegistered>>
    /\ UNCHANGED <<portBound, cacheVars, requestVars, tidalWindow, now, restarted>>

\* The server emits "close": every waiting stopCommandServer call resumes
\* (server.native.ts:129-138); a rejected one throws before line 134.
closeEmitted ==
    /\ closeCallbacks # <<>>
    /\ openConnections = 0
    /\ closeCallbacks' = <<>>
    /\ IF \E i \in 1..Len(closeCallbacks) : closeCallbacks[i] = "resolve"
       THEN /\ server' = "undefined"
            /\ IF trackInfoListenerRegistered
               THEN /\ ipcListeners' = ipcListeners - 1
                    /\ trackInfoListenerRegistered' = FALSE
               ELSE UNCHANGED <<ipcListeners, trackInfoListenerRegistered>>
       ELSE UNCHANGED <<server, ipcListeners, trackInfoListenerRegistered>>
    /\ UNCHANGED <<portBound, cacheVars, requestVars, tidalWindow, now, restarted>>

\* A message on the trackInfo channel reaches ipcMain (server.native.ts:24-26,
\* 46): every registration of trackInfoListener runs on it.
receiveTrackInfo(payload) ==
    /\ ipcListeners > 0
    /\ latestTrackInfo' = trackInfoListener(latestTrackInfo, payload)
    /\ everReceived' = TRUE
    /\ lastReceived' = payload
    /\ receivedOlder' =
           /\ latestTrackInfo # Undefined
           /\ latestTrackInfo.positionUpdatedAt.kind = "num"
           /\ payload.positionUpdatedAt.kind = "num"
           /\ payload.positionUpdatedAt.v < latestTrackInfo.positionUpdatedAt.v
    /\ restarted' = FALSE
    /\ UNCHANGED <<hostVars, requestVars, tidalWindow, now>>

\* handleRequest that stores what an info read returned as the cache.
handleRequest_WritesBack(query) ==
    /\ server = "Server"
    /\ reqCount < MaxRequests
    /\ portBound \/ openConnections > 0
    /\ UNCHANGED openConnections
    /\ LET id == reqCount + 1
           r == commandHandler(query, id)
       IN  /\ reqCount' = id
           /\ lastRequest' = [id |-> id, query |-> query, at |-> now,
                               restarted |-> restarted]
           /\ lastResponse' = [code |-> r.code, body |-> r.body]
           /\ commandChannel' = r.channel
           /\ refused' = IF r.code = 503 THEN refused \cup {id} ELSE refused
           /\ latestTrackInfo' = IF r.code = 200 /\ r.channel = commandChannel
                                     /\ latestTrackInfo # Undefined
                                 THEN r.body ELSE latestTrackInfo
    /\ UNCHANGED <<hostVars, everReceived, lastReceived, receivedOlder,
                   tidalWindow, now, restarted>>

\* A connection that server.close() left open ends: the client leaves (or
\* asked for Connection: close), or a timeout of the server (request timeout,
\* keep-alive timeout) destroys the socket.
dropConnection ==
    /\ openConnections > 0
    /\ openConnections' = openConnections - 1
    /\ UNCHANGED <<hostVars, cacheVars, reqCount, lastRequest, lastResponse,
                   commandChannel, refused, tidalWindow, now, restarted>>

\* GET /command is served (server.native.ts:50-73): the request arrives on
\* the listening server, or on a connection accepted before stopCommandServer,
\* which server.close() leaves open.  The response keeps the connection
\* (HTTP/1.1 keep-alive), so further requests on it are served as well until
\* the connection ends (dropConnection).
handleRequest(query) ==
    /\ server = "Server"
    /\ reqCount < MaxRequests
    /\ portBound \/ openConnections > 0
    /\ UNCHANGED openConnections
    /\ LET id == reqCount + 1
           r == commandHandler(query, id)
       IN  /\ reqCount' = id
           /\ lastRequest' = [id |-> id, query |-> query, at |-> now,
                               restarted |-> restarted]
           /\ lastResponse' = [code |-> r.code, body |-> r.body]
           /\ commandChannel' = r.channel
           /\ refused' = IF r.code = 503 THEN refused \cup {id} ELSE refused
    /\ UNCHANGED <<hostVars, cacheVars, tidalWindow, now, restarted>>

\* The application sets luna.tidalWindow (server.native.ts:117).
attachWindow ==
    /\ ~tidalWindow
    /\ tidalWindow' = TRUE
    /\ UNCHANGED <<hostVars, cacheVars, requestVars, now, restarted>>

detachWindow ==
    /\ tidalWindow
    /\ tidalWindow' = FALSE
    /\ UNCHANGED <<hostVars, cacheVars, requestVars, now, restarted>>

\* Wall-clock time passes (Date.now(), server.native.ts:33).
tick(limit) ==
    /\ now < limit * TickMs
    /\ now' = now + TickMs
    /\ UNCHANGED <<hostVars, cacheVars, requestVars, tidalWindow, restarted>>

----------------------------------------------------------------------------
(* The renderer's remote command dispatcher (index.ts:239-281) *)

dispatcherVars == <<commandsHandled, dom, clicked>>


\* remoteCommandSelectors (index.ts:249-259)
remoteCommandSelectors(command) ==
    CASE command = "playtoggle" ->
             <<"button[data-test=\"play-toggle\"]",
               "button[data-test=\"play\"]",
               "button[data-test=\"pause\"]",
               "button[aria-label=\"Play\"]",
               "button[aria-label=\"Pause\"]">>
      [] command = "next" ->
             <<"button[data-test=\"next\"]",
               "button[data-test=\"Next\"]",
               "button[aria-label=\"Next\"]">>
      [] command = "prev" ->
             <<"button[data-test=\"previous\"]",
               "button[data-test=\"prev\"]",
               "button[aria-label=\"Previous\"]">>

\* document.querySelector over a list of selectors tried in order: the first
\* that matches a button of `document`, "none" when none does.
FirstMatch(selectors, document) ==
    IF \E i \in 1..Len(selectors) : selectors[i] \in document
    THEN selectors[CHOOSE i \in 1..Len(selectors) :
                       /\ selectors[i] \in document
                       /\ \A j \in 1..(i - 1) : selectors[j] \notin document]
    ELSE "none"

\* clickRemoteButton that clicks the last selector of the table that matches.
clickRemoteButton_LastMatch(command, document) ==
    LET selectors == remoteCommandSelectors(command)
    IN  IF \E i \in 1..Len(selectors) : selectors[i] \in document
        THEN selectors[CHOOSE i \in 1..Len(selectors) :
                           /\ selectors[i] \in document
                           /\ \A j \in (i + 1)..Len(selectors) : selectors[j] \notin document]
        ELSE "none"

\* clickRemoteButton (index.ts:261-281): the selector of the button clicked,
\* "none" when it returns false.
clickRemoteButton(command, document) ==
    LET found == FirstMatch(remoteCommandSelectors(command), document)
    IN  IF found # "none" THEN found
        ELSE IF command = "playtoggle"
        THEN FirstMatch(<<"button[data-test=\"play-toggle\"]",
                          "button[data-test=\"play\"]",
                          "button[data-test=\"pause\"]">>, document)
        ELSE "none"

\* The body of handleRemoteCommand (index.ts:239-247) on `command`: the
\* selector of the button clicked, "none" when nothing is clicked, which is
\* the case of a missing command (line 240) and of a failed clickRemoteButton.
remoteCommandClick(command, document) ==
    IF command = NoCommand THEN "none"
    ELSE clickRemoteButton(command, document)

\* The documents the dispatcher runs on.
Documents ==
    {{},
     {"button[aria-label=\"Next\"]"},
     {"button[data-test=\"pause\"]", "button[aria-label=\"Play\"]",
      "button[data-test=\"Next\"]", "button[aria-label=\"Next\"]"},
     {"button[data-test=\"play-toggle\"]", "button[data-test=\"next\"]",
      "button[data-test=\"previous\"]", "button[aria-label=\"Previous\"]"}}

\* The renderer receives the next message of the command channel and runs
\* handleRemoteCommand on it (index.ts:136-138, 239-247).
handleRemoteCommand ==
    /\ commandsHandled < Len(commandChannel)
    /\ LET message == commandChannel[commandsHandled + 1]
       IN  clicked' = Append(clicked,
                             [req |-> message.req,
                              selector |-> remoteCommandClick(message.command, dom)])
    /\ commandsHandled' = commandsHandled + 1
    /\ UNCHANGED <<dom, calls, publisherVars, hostVars, cacheVars, requestVars, tidalWindow, now,
                   restarted>>

\* The dispatcher before any message, on document `document`.
DispatcherInit(document) ==
    /\ commandsHandled = 0
    /\ dom = document
    /\ clicked = <<>>

----------------------------------------------------------------------------
(* The renderer's publisher (index.ts:140-194, 283-297) *)

str_Unknown == <<"U", "n", "k", "n", "o", "w", "n">>

\* The decimal digits of a natural number.
RECURSIVE IntegerString(_)
IntegerString(n) ==
    IF n < 10 THEN <<Digits[n + 1]>>
    ELSE IntegerString(n \div 10) \o <<Digits[(n % 10) + 1]>>

\* The digits after the point of f/FixedScale, 0 < f < FixedScale, without
\* trailing zeros.
FractionString(f) ==
    LET d == <<Digits[(f \div 100) + 1], Digits[((f \div 10) % 10) + 1],
               Digits[(f % 10) + 1]>>
    IN  IF f % 10 # 0 THEN d
        ELSE IF f % 100 # 0 THEN SubSeq(d, 1, 2)
        ELSE SubSeq(d, 1, 1)

\* String(x) of a JavaScript number whose value is x.v/FixedScale.
String(x) ==
    CASE x.kind = "num" ->
             LET a == IF x.v < 0 THEN 0 - x.v ELSE x.v
             IN  (IF x.v < 0 THEN <<"-">> ELSE <<>>)
                 \o IntegerString(a \div FixedScale)
                 \o (IF a % FixedScale = 0 THEN <<>>
                     ELSE <<".">> \o FractionString(a % FixedScale))
      [] x.kind = "nan" -> <<"N", "a", "N">>
      [] x.kind = "inf" -> InfinityLiteral
      [] x.kind = "ninf" -> <<"-">> \o InfinityLiteral
      [] x.kind = "undefined" -> <<"u", "n", "d", "e", "f", "i", "n", "e", "d">>

\* a || b on JavaScript numbers
Or(a, b) ==
    IF a.kind \in {"undefined", "nan"} \/ (a.kind = "num" /\ a.v = 0) THEN b ELSE a

\* A cover URL: whether new URL() accepts it, and the segments of its path.
CoverUrl(valid, segments) ==
    [kind |-> "string", valid |-> valid, segments |-> segments]

\* /^[0-9]+x[0-9]+\.[a-z]+$/i on the segments of the model.
IsSizeFile(segment) == segment \in {"640x640.jpg", "80X80.PNG"}

\* extractCoverResourceId (index.ts:202-215).  The result stands for its
\* segments joined by "/"; <<>> is the empty string.
extractCoverResourceId(coverUrl) ==
    IF coverUrl.kind = "undefined" THEN <<>>
    ELSE IF ~coverUrl.valid THEN <<>>
    ELSE LET all == coverUrl.segments
             segments == IF all # <<>> /\ all[1] = "images" THEN Tail(all) ELSE all
         IN  IF segments = <<>> THEN <<>>
             ELSE IF IsSizeFile(segments[Len(segments)])
             THEN SubSeq(segments, 1, Len(segments) - 1)
             ELSE segments

\* MediaItem handles: the fields logTrackDetails reads and the values the
\* accessors resolve to.  Numbers are in 1/FixedScale.
ItemA ==
    [id |-> JsNum(1001 * FixedScale), duration |-> JsNum(2 * FixedScale),
     popularity |-> JsNum(10 * FixedScale), bestQuality |-> "LOSSLESS",
     title |-> "Title A", albumTitle |-> "Album A", artistName |-> "Artist A",
     coverUrl |-> CoverUrl(TRUE, <<"images", "aa", "bb", "640x640.jpg">>),
     releaseDate |->
         <<"2", "0", "2", "0", "-", "0", "1", "-", "0", "1", "T", "0",
           "0", ":", "0", "0", ":", "0", "0", ".", "0", "0", "0", "Z">>,
     isrc |-> "ISRC-A"]

ItemB ==
    [id |-> JsNum(1002 * FixedScale), duration |-> JsUndefined,
     popularity |-> JsUndefined, bestQuality |-> "HIGH",
     title |-> "Title B", albumTitle |-> "Album B", artistName |-> "Artist B",
     coverUrl |-> CoverUrl(TRUE, <<"cc", "dd">>),
     releaseDate |->
         <<"1", "9", "9", "9", "-", "1", "2", "-", "3", "1", "T", "1",
           "2", ":", "3", "0", ":", "0", "0", ".", "0", "0", "0", "Z">>,
     isrc |-> "ISRC-B"]

\* PlayState.playbackContext (index.ts:147); optional chaining on an absent
\* context reads undefined.
NoContext ==
    [kind |-> "undefined", actualDuration |-> JsUndefined,
     actualAudioQuality |-> QUndefined]
ContextHiRes ==
    [kind |-> "object", actualDuration |-> JsNum(1500),
     actualAudioQuality |-> QString("HI_RES")]

\* The promises of index.ts:152-160.
AccessorNames ==
    {"title", "album", "artist", "coverUrl", "playbackInfo", "releaseDate", "isrc"}

Rejected == [kind |-> "rejected"]

\* How the promises settle: "value", "absent" (resolved to undefined) or
\* "rejected", per accessor.
AllValue == [a \in AccessorNames |-> "value"]
OneSettles(name, how) == [AllValue EXCEPT ![name] = how]
Outcomes ==
    {AllValue}
    \cup {OneSettles(a, "absent") : a \in AccessorNames \ {"title"}}
    \cup {OneSettles(a, "rejected") : a \in AccessorNames}
    \cup {[OneSettles("isrc", "absent") EXCEPT !["album"] = "absent"],
          [OneSettles("isrc", "rejected") EXCEPT !["title"] = "rejected"]}

\* What each promise of index.ts:152-160 settles to for `item`.
Results(item, chosenQuality, outcome) ==
    LET value ==
            [title |-> QString(item.title),
             album |-> QString(item.albumTitle),
             artist |-> QString(item.artistName),
             coverUrl |-> item.coverUrl,
             playbackInfo |-> [kind |-> "object", audioQuality |-> chosenQuality],
             releaseDate |-> [kind |-> "date", iso |-> item.releaseDate],
             isrc |-> QString(item.isrc)]
    IN  [a \in AccessorNames |->
            CASE outcome[a] = "value" -> value[a]
              [] outcome[a] = "absent" -> Undefined
              [] outcome[a] = "rejected" -> Rejected]

\* A Promise.all that takes a rejected isrc() for an absent one.
promiseAll_IsrcOptional(results) ==
    IF \E a \in AccessorNames \ {"isrc"} : results[a].kind = "rejected"
    THEN Rejected
    ELSE [kind |-> "fulfilled",
          values |-> [results EXCEPT !["isrc"] =
                         IF results["isrc"].kind = "rejected"
                         THEN Undefined ELSE results["isrc"]]]

\* Promise.all (index.ts:151): rejected as soon as one promise is.
promiseAll(results) ==
    IF \E a \in AccessorNames : results[a].kind = "rejected"
    THEN Rejected
    ELSE [kind |-> "fulfilled", values |-> results]

\* date.toISOString()
toISOString(date) == date.iso

\* The snapshot of index.ts:164-177 from the resolved values.
trackPayload(item, duration, values) ==
    [album |-> Nullish(values.album, QString("")).str,
     artist |-> Nullish(values.artist, QString("")).str,
     audioquality |-> values.playbackInfo.audioQuality,
     duration |-> String(Or(duration, JsNum(0))),
     imgurl |-> extractCoverResourceId(values.coverUrl),
     isrc |-> Nullish(values.isrc, QString("")).str,
     popularity |-> IF item.popularity.kind = "undefined"
                    THEN str_Unknown ELSE String(item.popularity),
     releasedate |-> IF values.releaseDate.kind = "undefined"
                     THEN str_Unknown
                     ELSE SubSeq(toISOString(values.releaseDate), 1, 10),
     title |-> values.title.str,
     trackid |-> String(item.id)]

\* PlayState as the renderer reads it: playbackControls (index.ts:237) and
\* currentTime (index.ts:233).
NoControls ==
    [kind |-> "undefined", playbackState |-> "", latestCurrentTime |-> JsUndefined,
     latestCurrentTimeSyncTimestamp |-> JsUndefined]
Controls(state, latestCurrentTime, syncTimestamp) ==
    [kind |-> "object", playbackState |-> state,
     latestCurrentTime |-> latestCurrentTime,
     latestCurrentTimeSyncTimestamp |-> syncTimestamp]
PausedPlayState ==
    [playbackControls |-> Controls("PAUSED", JsNum(1800), JsUndefined),
     currentTime |-> JsNaN]
PlayStates ==
    {[playbackControls |-> Controls("PLAYING", JsNum(500), JsNum(0)),
      currentTime |-> JsNum(700)],
     PausedPlayState,
     [playbackControls |-> NoControls, currentTime |-> JsNaN]}

\* computeElapsedSeconds (index.ts:224-235), in 1/FixedScale seconds.
computeElapsedSeconds(playbackControls, currentTime, nowMs) ==
    LET baseSeconds == Nullish(playbackControls.latestCurrentTime, JsNum(0))
        syncTimestamp == playbackControls.latestCurrentTimeSyncTimestamp
    IN  IF playbackControls.playbackState # "PLAYING" THEN baseSeconds
        ELSE IF /\ TypeofNumber(syncTimestamp)
                /\ NumberIsFinite(syncTimestamp)
                /\ nowMs - syncTimestamp.v >= 0
        THEN JsNum(baseSeconds.v
                   + ((nowMs - syncTimestamp.v) * FixedScale) \div MsPerSecond)
        ELSE IF NumberIsFinite(currentTime) THEN currentTime ELSE baseSeconds

\* getCurrentPositionSeconds (index.ts:293-297)
getCurrentPositionSeconds(playState, nowMs) ==
    IF playState.playbackControls.kind = "undefined" THEN 0
    ELSE computeElapsedSeconds(playState.playbackControls, playState.currentTime,
                               nowMs).v

\* publishTrackInfo without the assignment of line 284.
publishTrackInfo_SendOnly(payload) ==
    /\ Len(trackInfoChannel) < MaxInFlight
    /\ heldTrackInfo' = heldTrackInfo
    /\ trackInfoChannel' = Append(trackInfoChannel, payload)
    /\ heardLatest' = FALSE

\* publishTrackInfo (index.ts:283-286); at most MaxInFlight messages are in
\* flight.
publishTrackInfo(payload) ==
    /\ Len(trackInfoChannel) < MaxInFlight
    /\ heldTrackInfo' = payload
    /\ trackInfoChannel' = Append(trackInfoChannel, payload)
    /\ heardLatest' = FALSE

\* A merge that also resets the isrc field.
mergePayload_ClearsIsrc(held, partial) ==
    [f \in DOMAIN held \cup DOMAIN partial |->
        IF f \in DOMAIN partial THEN partial[f]
        ELSE IF f = "isrc" THEN "" ELSE held[f]]

\* { ...latestTrackInfo, ...partial } (index.ts:290)
mergePayload(held, partial) ==
    [f \in DOMAIN held \cup DOMAIN partial |->
        IF f \in DOMAIN partial THEN partial[f] ELSE held[f]]

\* updateTrackInfoPayload without the guard of line 289.
updateTrackInfoPayload_NoGuard(partial) ==
    publishTrackInfo(IF heldTrackInfo = Undefined THEN partial
                     ELSE mergePayload(heldTrackInfo, partial))

\* updateTrackInfoPayload (index.ts:288-291)
updateTrackInfoPayload(partial) ==
    IF heldTrackInfo = Undefined
    THEN UNCHANGED <<heldTrackInfo, trackInfoChannel, heardLatest>>
    ELSE publishTrackInfo(mergePayload(heldTrackInfo, partial))

\* The publisher before any event.
PublisherInit ==
    /\ heldTrackInfo = Undefined
    /\ trackInfoChannel = <<>>
    /\ pending = <<>>
    /\ activeMediaItem = JsUndefined
    /\ activeDurationSeconds = JsNum(0)
    /\ heardLatest = FALSE

----------------------------------------------------------------------------
(* The lifecycle as its callers see it (index.ts:129-134) *)

\* An entry of the history: an operation and how it went.
Call(op, result) == [op |-> op, result |-> result]

\* The payloads delivered while the server is started and stopped.
LifecyclePayloads ==
    {StatusPayload(TrackA(str_2), "PLAYING", 500, JsNum(0)),
     StatusPayload(TrackB(str_0), "PAUSED", 1800, JsNum(0))}

\* startCommandServer() is called (index.ts:129): the promise resolves, after
\* creating a server or at once.
callStart(bindOk) ==
    /\ Len(calls) < MaxCalls
    /\ startCommandServer(bindOk)
    /\ calls' = Append(calls, Call("start", IF server = "undefined"
                                            THEN "created" ELSE "returned"))
    /\ UNCHANGED <<dispatcherVars, publisherVars>>

\* stopCommandServer() is called (index.ts:131): it returns at once or waits
\* for the close callback.
callStop ==
    /\ Len(calls) < MaxCalls
    /\ \E held \in 0..MaxConnections : stopCommandServer(held)
    /\ calls' = Append(calls, Call("stop", IF server = "undefined"
                                           THEN "returned" ELSE "waiting"))
    /\ UNCHANGED <<dispatcherVars, publisherVars>>

\* "close" is emitted: each waiting stopCommandServer call settles, resolved
\* or rejected by its callback's argument (server.native.ts:129-132).
closeSettles ==
    /\ closeEmitted
    /\ calls' = calls \o [i \in 1..Len(closeCallbacks) |->
                              Call("settle", closeCallbacks[i])]
    /\ UNCHANGED <<dispatcherVars, publisherVars>>

\* ipcMain emits a trackInfo message (server.native.ts:46): the registered
\* listeners run; without a listener nothing does.
emitTrackInfo(payload) ==
    /\ Len(calls) < MaxCalls
    /\ IF ipcListeners > 0
       THEN receiveTrackInfo(payload)
       ELSE UNCHANGED <<hostVars, cacheVars, requestVars, tidalWindow, now, restarted>>
    /\ calls' = Append(calls, Call("emit", IF ipcListeners > 0
                                           THEN "heard" ELSE "unheard"))
    /\ UNCHANGED <<dispatcherVars, publisherVars>>

----------------------------------------------------------------------------
(* The renderer's event handlers and the trackInfo channel *)

hostSideVars == <<hostVars, cacheVars, requestVars, tidalWindow, restarted>>

\* The last handler run was a logTrackDetails call whose promises settled as
\* `outcome`.
Settled(result, outcome) == [op |-> "settle", result |-> result, outcome |-> outcome]

\* MediaItem.onMediaTransition (index.ts:192-194) or the initial playback
\* context (index.ts:196-200): logTrackDetails runs up to its await
\* (index.ts:146-161) and is not awaited.
onMediaTransition(item, context) ==
    /\ Len(pending) < MaxPending
    /\ activeMediaItem' = item.id
    /\ pending' = Append(pending, [item |-> item, context |-> context])
    /\ UNCHANGED <<calls, heldTrackInfo, trackInfoChannel, activeDurationSeconds,
                   heardLatest, dispatcherVars, hostSideVars, now>>

\* The Promise.all of the i-th waiting logTrackDetails call settles and the
\* call runs to its end (index.ts:151-184).
logTrackDetailsSettles(i, outcome, playState) ==
    /\ i \in 1..Len(pending)
    /\ LET mediaItem == pending[i].item
           playbackContext == pending[i].context
           chosenQuality ==
               Nullish(playbackContext.actualAudioQuality,
                       QString(mediaItem.bestQuality)).str
           settled == promiseAll(Results(mediaItem, chosenQuality, outcome))
           duration ==
               Nullish(Nullish(playbackContext.actualDuration, mediaItem.duration),
                       JsNum(0))
           status ==
               IF playState.playbackControls.kind = "undefined" THEN "UNKNOWN"
               ELSE playState.playbackControls.playbackState
       IN  IF settled.kind = "rejected"
           THEN /\ calls' = <<Settled("failed", outcome)>>
                /\ UNCHANGED <<heldTrackInfo, trackInfoChannel, heardLatest,
                               activeDurationSeconds>>
           ELSE IF settled.values.playbackInfo.kind = "undefined"
           THEN /\ activeDurationSeconds' = duration
                /\ calls' = <<Settled("failed", outcome)>>
                /\ UNCHANGED <<heldTrackInfo, trackInfoChannel, heardLatest>>
           ELSE /\ activeDurationSeconds' = duration
                /\ publishTrackInfo(
                       StatusPayload(trackPayload(mediaItem, duration, settled.values),
                                     status,
                                     getCurrentPositionSeconds(playState, now),
                                     JsNum(now)))
                /\ calls' = <<Settled("published", outcome)>>
    /\ pending' = SubSeq(pending, 1, i - 1) \o SubSeq(pending, i + 1, Len(pending))
    /\ UNCHANGED <<activeMediaItem, dispatcherVars, hostSideVars, now>>

\* PlayState.onState (index.ts:187-190)
onState(state, playState) ==
    /\ updateTrackInfoPayload(
           [status |-> state,
            positionSeconds |-> getCurrentPositionSeconds(playState, now),
            positionUpdatedAt |-> JsNum(now)])
    /\ calls' = <<Call("state", IF heldTrackInfo = Undefined
                                THEN "dropped" ELSE "published")>>
    /\ UNCHANGED <<pending, activeMediaItem, activeDurationSeconds,
                   dispatcherVars, hostSideVars, now>>

\* The oldest trackInfo message reaches ipcMain (index.ts:285,
\* server.native.ts:46).  keep: the channel delivers it once more later.
deliverTrackInfo(keep) ==
    /\ trackInfoChannel # <<>>
    /\ IF ipcListeners > 0
       THEN /\ receiveTrackInfo(Head(trackInfoChannel))
            /\ heardLatest' = (heardLatest \/ Len(trackInfoChannel) = 1)
       ELSE UNCHANGED <<hostSideVars, now, heardLatest>>
    /\ trackInfoChannel' = IF keep THEN trackInfoChannel ELSE Tail(trackInfoChannel)
    /\ UNCHANGED <<calls, heldTrackInfo, pending, activeMediaItem, activeDurationSeconds,
                   dispatcherVars>>

\* The channel loses the oldest trackInfo message.
dropTrackInfo ==
    /\ trackInfoChannel # <<>>
    /\ trackInfoChannel' = Tail(trackInfoChannel)
    /\ UNCHANGED <<calls, heldTrackInfo, pending, activeMediaItem, activeDurationSeconds,
                   heardLatest, dispatcherVars, hostSideVars, now>>

----------------------------------------------------------------------------
(* Specifications *)

\* The module as loaded (server.native.ts:15-22).
Init ==
    /\ server = "undefined"
    /\ portBound = FALSE
    /\ closeCallbacks = <<>>
    /\ trackInfoListenerRegistered = FALSE
    /\ ipcListeners = 0
    /\ latestTrackInfo = Undefined
    /\ tidalWindow = FALSE
    /\ commandChannel = <<>>
    /\ now = 0
    /\ reqCount = 0
    /\ lastRequest = NoRequest
    /\ lastResponse = NoResponse
    /\ everReceived = FALSE
    /\ lastReceived = Undefined
    /\ receivedOlder = FALSE
    /\ refused = {}
    /\ openConnections = 0
    /\ restarted = FALSE
    /\ DispatcherInit({})
    /\ calls = <<>>
    /\ PublisherInit

Next ==
    \/ (\E bindOk \in BOOLEAN : startCommandServer(bindOk)) /\ UNCHANGED otherVars
    \/ (\E held \in 0..MaxConnections : stopCommandServer(held)) /\ UNCHANGED otherVars
    \/ closeEmitted /\ UNCHANGED otherVars
    \/ (\E payload \in SysPayloads : receiveTrackInfo(payload)) /\ UNCHANGED otherVars
    \/ dropConnection /\ UNCHANGED otherVars
    \/ (\E query \in SysQueries : handleRequest(query)) /\ UNCHANGED otherVars
    \/ attachWindow /\ UNCHANGED otherVars
    \/ detachWindow /\ UNCHANGED otherVars
    \/ tick(SysTicks) /\ UNCHANGED otherVars

Spec == Init /\ [][Next]_vars

\* A listening server whose cache holds `cached` (Undefined: nothing received).
Listening(cached) ==
    /\ server = "Server"
    /\ portBound = TRUE
    /\ closeCallbacks = <<>>
    /\ trackInfoListenerRegistered = TRUE
    /\ ipcListeners = 1
    /\ latestTrackInfo = cached
    /\ commandChannel = <<>>
    /\ reqCount = 0
    /\ lastRequest = NoRequest
    /\ lastResponse = NoResponse
    /\ everReceived = (cached # Undefined)
    /\ lastReceived = cached
    /\ receivedOlder = FALSE
    /\ refused = {}
    /\ openConnections = 0
    /\ restarted = FALSE

\* Info reads of one cached payload as time passes.
InitEstimate ==
    /\ \E cached \in EstimatePayloads : Listening(cached)
    /\ tidalWindow = TRUE
    /\ now = 0
    /\ DispatcherInit({})
    /\ calls = <<>>
    /\ PublisherInit

NextEstimate ==
    \/ handleRequest(InfoQuery) /\ UNCHANGED otherVars
    \/ tick(MaxTicks) /\ UNCHANGED otherVars

SpecEstimate == InitEstimate /\ [][NextEstimate]_vars

\* Requests over every combination of the query parameters.
InitQuery ==
    /\ \E cached \in {Undefined, StatusPayload(TrackA(str_2), "PAUSED", 500, JsNum(0))} :
          Listening(cached)
    /\ tidalWindow \in BOOLEAN
    /\ now = 0
    /\ DispatcherInit({})
    /\ calls = <<>>
    /\ PublisherInit

NextQuery ==
    /\ reqCount = 0
    /\ \E query \in TokenQueries \cup PriorityQueries : handleRequest(query)
    /\ UNCHANGED otherVars

\* Playback commands from the request to the click, on each document.
InitCommand ==
    /\ Listening(Undefined)
    /\ tidalWindow \in BOOLEAN
    /\ now = 0
    /\ \E document \in Documents : DispatcherInit(document)
    /\ calls = <<>>
    /\ PublisherInit

NextCommand ==
    \/ (\E query \in SysQueries : handleRequest(query)) /\ UNCHANGED otherVars
    \/ handleRemoteCommand
    \/ attachWindow /\ UNCHANGED otherVars
    \/ detachWindow /\ UNCHANGED otherVars

SpecCommand == InitCommand /\ [][NextCommand]_vars

\* The lifecycle calls in every order, with trackInfo messages in between.
NextLifecycle ==
    \/ \E bindOk \in BOOLEAN : callStart(bindOk)
    \/ callStop
    \/ closeSettles
    \/ dropConnection /\ UNCHANGED otherVars
    \/ \E payload \in LifecyclePayloads : emitTrackInfo(payload)

SpecLifecycle == Init /\ [][NextLifecycle]_vars

\* Track changes whose accessors settle in every way.
Transitions == {<<ItemA, NoContext>>, <<ItemB, ContextHiRes>>, <<ItemB, NoContext>>}

InitPublisher ==
    /\ Listening(Undefined)
    /\ tidalWindow = TRUE
    /\ now = 0
    /\ DispatcherInit({})
    /\ calls = <<>>
    /\ PublisherInit

\* One message is in flight at a time.
NextSnapshot ==
    \/ /\ trackInfoChannel = <<>>
       /\ \E t \in Transitions : onMediaTransition(t[1], t[2])
    \/ /\ trackInfoChannel = <<>>
       /\ \E i \in 1..MaxPending, outcome \in Outcomes :
              logTrackDetailsSettles(i, outcome, PausedPlayState)
    \/ dropTrackInfo

SpecSnapshot == InitPublisher /\ [][NextSnapshot]_vars

\* Two track changes, to ItemA and then to ItemB, whose snapshot builds all
\* succeed and settle in either order; every message is delivered in order.
NextTrackChange ==
    \/ /\ activeMediaItem = JsUndefined
       /\ onMediaTransition(ItemA, NoContext)
    \/ /\ activeMediaItem = ItemA.id
       /\ onMediaTransition(ItemB, ContextHiRes)
    \/ \E i \in 1..MaxPending, playState \in PlayStates :
           logTrackDetailsSettles(i, AllValue, playState)
    \/ deliverTrackInfo(FALSE)
    \/ tick(SysTicks) /\ UNCHANGED otherVars

SpecTrackChange == InitPublisher /\ [][NextTrackChange]_vars

\* The position computation alone: computeElapsedSeconds applied to every
\* playback-controls object and live clock of ElapsedInputs at every time.
ElapsedInputs ==
    [playbackControls :
         {Controls(state, latestCurrentTime, syncTimestamp) :
              state \in {"PLAYING", "PAUSED", "NOT_PLAYING"},
              latestCurrentTime \in {JsUndefined, JsNum(500), JsNum(1800)},
              syncTimestamp \in {JsUndefined, JsNaN, JsInf, JsNum(0),
                                 JsNum(TickMs), JsNum(3 * TickMs)}},
     currentTime : {JsNaN, JsInf, JsNum(700)}]

\* A handler reads the position (index.ts:173, 189 through 293-297): the call
\* of computeElapsedSeconds and its result are recorded.
readElapsedSeconds(playState) ==
    /\ calls' = <<[op |-> "computeElapsedSeconds", playState |-> playState,
                   at |-> now,
                   result |-> computeElapsedSeconds(playState.playbackControls,
                                                    playState.currentTime, now)]>>
    /\ UNCHANGED <<dispatcherVars, publisherVars, hostSideVars, now>>

NextElapsed ==
    \/ \E playState \in ElapsedInputs : readElapsedSeconds(playState)
    \/ tick(MaxTicks) /\ UNCHANGED otherVars

SpecElapsed == InitPublisher /\ [][NextElapsed]_vars

\* The publisher, the channel and the host cache.
PublisherOutcomes == {AllValue, OneSettles("isrc", "rejected")}
PublisherPlayStates == {p \in PlayStates : p.playbackControls.playbackState # "PAUSED"}

NextPublisher ==
    \/ onMediaTransition(ItemA, NoContext)
    \/ \E i \in 1..MaxPending, outcome \in PublisherOutcomes,
          playState \in PublisherPlayStates :
           logTrackDetailsSettles(i, outcome, playState)
    \/ \E state \in {"PLAYING", "PAUSED"}, playState \in PublisherPlayStates :
           onState(state, playState)
    \/ \E keep \in BOOLEAN : deliverTrackInfo(keep)
    \/ dropTrackInfo
    \/ tick(SysTicks) /\ UNCHANGED otherVars

SpecPublisher == InitPublisher /\ [][NextPublisher]_vars

SpecQuery == InitQuery /\ [][NextQuery]_vars

----------------------------------------------------------------------------
(* Vocabulary of the claims *)

\* The first present parameter in the order command, cmd, action, op.
FirstPresent(query) ==
    IF query.command.kind # "undefined" THEN query.command
    ELSE IF query.cmd.kind # "undefined" THEN query.cmd
    ELSE IF query.action.kind # "undefined" THEN query.action
    ELSE query.op

\* The command token of a request: the first value of the first present
\* parameter.
TokenOf(query) ==
    LET value == FirstPresent(query)
    IN  IF value.kind = "array" THEN QString(value.arr[1]) ELSE value

\* `str` is one of `tokens` in some letter case.
IsVariantOf(str, tokens) ==
    LET lower == toLowerCase(str)
    IN  \E t \in tokens : lower = t /\ str \in CaseVariants(t)

\* The playback command the alias table gives a token, "none" for any other
\* string and for a value that is no string.
ExpectedCommand(value) ==
    IF value.kind # "string" THEN "none"
    ELSE IF IsVariantOf(value.str, {tok_play, tok_start, tok_resume, tok_stop,
                                    tok_pause, tok_halt, tok_playtoggle,
                                    tok_toggle})
    THEN "playtoggle"
    ELSE IF IsVariantOf(value.str, {tok_next, tok_forward}) THEN "next"
    ELSE IF IsVariantOf(value.str, {tok_prev, tok_previous, tok_back}) THEN "prev"
    ELSE "none"

\* The token is "info" in some letter case.
IsInfoToken(value) == value.kind = "string" /\ IsVariantOf(value.str, {tok_info})

\* The last request was an info request, answered with a payload.
InfoRead == reqCount > 0 /\ IsInfoToken(TokenOf(lastRequest.query)) /\ lastResponse.code = 200

\* The cached duration parses to a positive finite number.
DurationKnown == Number(latestTrackInfo.duration).kind = "num" /\ Number(latestTrackInfo.duration).v > 0

CachedDuration == Number(latestTrackInfo.duration).v

\* The last info read extrapolated: status PLAYING and a numeric stamp earlier
\* than the read time.
Extrapolated ==
    /\ latestTrackInfo.status = "PLAYING"
    /\ latestTrackInfo.positionUpdatedAt.kind = "num"
    /\ lastRequest.at > latestTrackInfo.positionUpdatedAt.v

----------------------------------------------------------------------------
(* Claims on the position estimate, under SpecEstimate: the cache is the  *)
(* payload drawn initially, lastRequest.at the time of the last info read *)

\* C1 as stated: whatever the cached status, positionSeconds and
\* positionUpdatedAt, an info read of a payload with a known positive
\* duration returns a positionSeconds no greater than that duration.
C1_AlwaysWithinDuration ==
    (InfoRead /\ DurationKnown) =>
        lastResponse.body.positionSeconds <= CachedDuration

\* C1 as amended: with a known positive duration, the returned positionSeconds
\* is no greater than the duration whenever the read extrapolates or the
\* cached positionSeconds is itself no greater than the duration; a read that
\* does not extrapolate returns the cached positionSeconds as it is.
C1_ClampWhenExtrapolated ==
    (InfoRead /\ DurationKnown) =>
        /\ (Extrapolated \/ latestTrackInfo.positionSeconds <= CachedDuration)
              => lastResponse.body.positionSeconds <= CachedDuration
        /\ ~Extrapolated
              => lastResponse.body.positionSeconds = latestTrackInfo.positionSeconds

\* A read that the clamp cut: the cached position plus the elapsed time lies
\* beyond the duration, and the duration is returned.
C1_Witness ==
    /\ InfoRead /\ DurationKnown /\ Extrapolated
    /\ latestTrackInfo.positionSeconds < CachedDuration
    /\ latestTrackInfo.positionSeconds * MsPerSecond
         + (lastRequest.at - latestTrackInfo.positionUpdatedAt.v) * FixedScale
         > CachedDuration * MsPerSecond
    /\ lastResponse.body.positionSeconds = CachedDuration

\* C2: with a cached status other than PLAYING, an info read returns the
\* cached positionSeconds at every read time.
C2_NotPlayingUnchanged ==
    (reqCount > 0 /\ latestTrackInfo.status # "PLAYING") =>
        /\ lastResponse.code = 200
        /\ lastResponse.body.positionSeconds = latestTrackInfo.positionSeconds

\* A payload that is not playing, read after its stamp and before its stamp.
C2_Witness ==
    /\ InfoRead
    /\ latestTrackInfo.status = "NOT_PLAYING"
    /\ latestTrackInfo.positionUpdatedAt.kind = "num"
    /\ lastRequest.at > latestTrackInfo.positionUpdatedAt.v
    /\ lastResponse.body.positionSeconds = latestTrackInfo.positionSeconds

\* C3: status PLAYING, unknown duration, stamp t: a read at t + d*1000 with
\* d >= 0 returns the cached positionSeconds + d.
C3_UnknownDurationAddsElapsed ==
    (/\ reqCount > 0
     /\ latestTrackInfo.status = "PLAYING"
     /\ ~DurationKnown
     /\ latestTrackInfo.positionUpdatedAt.kind = "num"
     /\ lastRequest.at >= latestTrackInfo.positionUpdatedAt.v) =>
        /\ lastResponse.code = 200
        /\ lastResponse.body.positionSeconds * MsPerSecond =
               latestTrackInfo.positionSeconds * MsPerSecond
               + (lastRequest.at - latestTrackInfo.positionUpdatedAt.v) * FixedScale

\* A playing payload of duration "0" read a positive time after its stamp.
C3_Witness ==
    /\ InfoRead
    /\ latestTrackInfo.status = "PLAYING"
    /\ latestTrackInfo.duration = str_0
    /\ latestTrackInfo.positionUpdatedAt.kind = "num"
    /\ lastRequest.at > latestTrackInfo.positionUpdatedAt.v
    /\ lastResponse.body.positionSeconds > latestTrackInfo.positionSeconds

\* C4: status PLAYING and a read time earlier than the stamp: the cached
\* positionSeconds is returned, never a smaller one.
C4_NoBackwardExtrapolation ==
    (/\ reqCount > 0
     /\ latestTrackInfo.status = "PLAYING"
     /\ latestTrackInfo.positionUpdatedAt.kind = "num"
     /\ lastRequest.at < latestTrackInfo.positionUpdatedAt.v) =>
        /\ lastResponse.code = 200
        /\ lastResponse.body.positionSeconds = latestTrackInfo.positionSeconds

\* A playing payload stamped later than the time it was read at.
C4_Witness ==
    /\ InfoRead
    /\ latestTrackInfo.status = "PLAYING"
    /\ latestTrackInfo.positionUpdatedAt.kind = "num"
    /\ lastRequest.at < latestTrackInfo.positionUpdatedAt.v
    /\ latestTrackInfo.positionSeconds > 0
    /\ lastResponse.body.positionSeconds = latestTrackInfo.positionSeconds

----------------------------------------------------------------------------
(* Claims on the cache and on request handling *)

\* The step handles a request.
Handled == reqCount' = reqCount + 1

\* The answer the command server gives a request whose command token is
\* `value`, by the interface of section 6: an info read, a forwarded
\* command, 503 without a renderer window, or 400.
AnsweredAs(value) ==
    IF IsInfoToken(value)
    THEN IF latestTrackInfo = Undefined
         THEN /\ lastResponse.code = 404
              /\ lastResponse.body = [status |-> "UNKNOWN", message |-> "No track data"]
         ELSE /\ lastResponse.code = 200
              /\ lastResponse.body.trackid = latestTrackInfo.trackid
    ELSE IF ExpectedCommand(value) = "none"
    THEN /\ lastResponse.code = 400
         /\ lastResponse.body = [status |-> "error", message |-> "Missing or invalid command"]
    ELSE IF tidalWindow
    THEN /\ lastResponse.code = 200
         /\ lastResponse.body = [status |-> "ok", command |-> ExpectedCommand(value)]
    ELSE /\ lastResponse.code = 503
         /\ lastResponse.body = [status |-> "error", message |-> "Renderer window unavailable"]

\* C5: an info request is answered 404 {status: "UNKNOWN"} exactly when no
\* trackInfo payload has ever been received, and 200 with the payload once
\* one has been, also after the command server was stopped and started.
C5_UnknownIffNeverReceived ==
    [][(Handled /\ IsInfoToken(TokenOf(lastRequest'.query))) =>
          IF everReceived
          THEN /\ lastResponse'.code = 200
               /\ lastResponse'.body.trackid = lastReceived.trackid
               /\ lastResponse'.body.title = lastReceived.title
          ELSE /\ lastResponse'.code = 404
               /\ lastResponse'.body = [status |-> "UNKNOWN", message |-> "No track data"]
      ]_vars

\* An info request answered 200 by a server created after the payload arrived.
C5_Witness ==
    /\ reqCount > 0
    /\ IsInfoToken(TokenOf(lastRequest.query))
    /\ lastRequest.restarted
    /\ lastResponse.code = 200
    /\ lastResponse.body.trackid = lastReceived.trackid

\* C6: the cache is the last payload received, whole, also when that payload
\* is stamped earlier than the one it replaces; before any payload it is
\* undefined.
C6_CacheIsLastReceived ==
    IF everReceived THEN latestTrackInfo = lastReceived
    ELSE latestTrackInfo = Undefined

\* The payload of track B, stamped earlier than the cached payload of track A,
\* has replaced it.
C6_Witness ==
    /\ receivedOlder
    /\ latestTrackInfo = lastReceived
    /\ latestTrackInfo.trackid = TrackB(str_0).trackid

\* C7: a token in any letter case of play, start, resume, stop, pause, halt,
\* playtoggle, toggle is handled as playtoggle, of next, forward as next, of
\* prev, previous, back as prev; any other string and any value that is no
\* string is answered 400.
C7_AliasTable ==
    (/\ reqCount > 0
     /\ lastRequest.query \in TokenQueries
     /\ ~IsInfoToken(lastRequest.query.cmd)) =>
        AnsweredAs(lastRequest.query.cmd)

\* "PLAY" forwarded as playtoggle.
C7_Witness ==
    /\ reqCount > 0
    /\ lastRequest.query.cmd = QString(<<"P", "L", "A", "Y">>)
    /\ lastResponse = [code |-> 200, body |-> [status |-> "ok", command |-> "playtoggle"]]
    /\ commandChannel = <<[req |-> 1, command |-> "playtoggle"]>>

\* C8: the first value of the first present parameter in the order command,
\* cmd, action, op alone decides the answer.
C8_FirstPresentDecides ==
    reqCount > 0 => AnsweredAs(TokenOf(lastRequest.query))

\* command=jump&command=play&cmd=next is answered 400: "jump" decides.
C8_Witness ==
    /\ reqCount > 0
    /\ lastRequest.query.command = QArray(<<tok_jump, tok_play>>)
    /\ lastRequest.query.cmd = QString(tok_next)
    /\ lastResponse.code = 400

\* C9: a request whose token is missing or unrecognized is answered 400, and
\* handling it leaves the command channel and the cache as they were.
C9_InvalidIs400 ==
    [][(/\ Handled
        /\ ~IsInfoToken(TokenOf(lastRequest'.query))
        /\ ExpectedCommand(TokenOf(lastRequest'.query)) = "none") =>
          /\ lastResponse'.code = 400
          /\ lastResponse'.body = [status |-> "error", message |-> "Missing or invalid command"]
          /\ commandChannel' = commandChannel
          /\ latestTrackInfo' = latestTrackInfo
      ]_vars

\* An unrecognized token answered 400 with a window attached and a payload
\* cached, nothing sent.
C9_Witness ==
    /\ reqCount = 1
    /\ TokenOf(lastRequest.query) = QString(tok_jump)
    /\ lastResponse.code = 400
    /\ tidalWindow
    /\ latestTrackInfo # Undefined
    /\ commandChannel = <<>>

\* C10: a recognized playback command arriving without a renderer window is
\* answered 503 and sends nothing; a message is sent only while its own
\* request is handled, so no message of a refused request is ever on the
\* command channel.
C10_RefusedNeverSent ==
    /\ [][(/\ Handled
           /\ ~IsInfoToken(TokenOf(lastRequest'.query))
           /\ ExpectedCommand(TokenOf(lastRequest'.query)) # "none"
           /\ ~tidalWindow) =>
             /\ lastResponse'.code = 503
             /\ lastResponse'.body = [status |-> "error", message |-> "Renderer window unavailable"]
             /\ commandChannel' = commandChannel
         ]_vars
    /\ [][commandChannel' # commandChannel =>
             /\ Handled
             /\ tidalWindow
             /\ Len(commandChannel') = Len(commandChannel) + 1
             /\ commandChannel'[Len(commandChannel')].req = reqCount'
         ]_vars
    /\ [](\A i \in 1..Len(commandChannel) : commandChannel[i].req \notin refused)

\* A request was refused, a window was attached afterwards, and a later
\* request was forwarded: the channel holds the later request's message only.
C10_Witness ==
    /\ refused = {1}
    /\ tidalWindow
    /\ commandChannel # <<>>
    /\ \A i \in 1..Len(commandChannel) : commandChannel[i].req = 2

\* C11: a recognized playback command arriving with a renderer window is
\* answered 200 {status: "ok", command} and adds exactly one message, the
\* normalized command, to the command channel; the renderer handling that
\* message, whether or not it finds a control to click, changes neither the
\* answer nor the channel.
C11_ForwardedOnceAnswered200 ==
    /\ [][(/\ Handled
           /\ ~IsInfoToken(TokenOf(lastRequest'.query))
           /\ ExpectedCommand(TokenOf(lastRequest'.query)) # "none"
           /\ tidalWindow) =>
             /\ lastResponse' =
                    [code |-> 200,
                     body |-> [status |-> "ok",
                               command |-> ExpectedCommand(TokenOf(lastRequest'.query))]]
             /\ commandChannel' =
                    Append(commandChannel,
                           [req |-> reqCount',
                            command |-> ExpectedCommand(TokenOf(lastRequest'.query))])
         ]_vars
    /\ [][commandsHandled' # commandsHandled =>
             /\ lastResponse' = lastResponse
             /\ commandChannel' = commandChannel
         ]_vars

\* A forwarded command answered 200 whose one message the renderer has
\* handled without finding a control to click.
C11_Witness ==
    /\ reqCount = 1
    /\ lastResponse = [code |-> 200, body |-> [status |-> "ok", command |-> "next"]]
    /\ commandChannel = <<[req |-> 1, command |-> "next"]>>
    /\ commandsHandled = 1
    /\ clicked = <<[req |-> 1, selector |-> "none"]>>

\* A forwarded command answered 200 whose message made the renderer click.
C11_WitnessClicked ==
    /\ reqCount = 1
    /\ lastResponse = [code |-> 200, body |-> [status |-> "ok", command |-> "playtoggle"]]
    /\ commandChannel = <<[req |-> 1, command |-> "playtoggle"]>>
    /\ clicked = <<[req |-> 1, selector |-> "button[data-test=\"pause\"]"]>>

----------------------------------------------------------------------------
(* Lifecycle claims *)

\* The step adds `call` to the history as its one new entry.
Called(call) == calls' = Append(calls, call)

\* The step is a call of the operation `op`.
CalledOp(op) ==
    /\ Len(calls') = Len(calls) + 1
    /\ calls'[Len(calls')].op = op

\* A stop has completed successfully and no start was called since.
StoppedAt(i) ==
    /\ calls[i] = Call("settle", "resolve")
    /\ \A j \in (i + 1)..Len(calls) : calls[j].op # "start"

Stopped == \E i \in 1..Len(calls) : StoppedAt(i)

\* C12: a startCommandServer call made while a server handle exists leaves
\* the handle, the port, the listener registration and the cache as they
\* were; the trackInfo listener is never registered twice.
C12_StartIdempotent ==
    /\ [][(CalledOp("start") /\ server # "undefined") =>
             /\ Called(Call("start", "returned"))
             /\ UNCHANGED <<hostVars, latestTrackInfo, requestVars>>
         ]_vars
    /\ [](ipcListeners <= 1)

\* A second start right after the first, which created the server.
C12_Witness ==
    /\ calls = <<Call("start", "created"), Call("start", "returned")>>
    /\ server = "Server"
    /\ ipcListeners = 1

\* C13: a stopCommandServer call made while no server handle exists (never
\* started, or after a stop has completed) returns at once without waiting
\* for a callback and changes nothing.
C13_StopWithoutServer ==
    [][(CalledOp("stop") /\ server = "undefined") =>
          /\ Called(Call("stop", "returned"))
          /\ UNCHANGED <<hostVars, latestTrackInfo, requestVars>>
      ]_vars

\* A stop before any start, then a start, a stop that completed, and a stop
\* again.
C13_Witness ==
    /\ calls = <<Call("stop", "returned"), Call("start", "created"),
                 Call("stop", "waiting"), Call("settle", "resolve"),
                 Call("stop", "returned")>>
    /\ server = "undefined"
    /\ closeCallbacks = <<>>

\* C14: when "close" is emitted with two or more stopCommandServer calls
\* waiting, the first of them made on a listening server, every one of them
\* completes without error, the server handle is
\* cleared and the trackInfo listener is deregistered.
C14_ConcurrentStopsComplete ==
    [][(/\ Len(closeCallbacks) >= 2
        /\ closeCallbacks[1] = "resolve"
        /\ closeCallbacks' = <<>>) =>
          /\ \A i \in 1..Len(closeCallbacks) : closeCallbacks[i] = "resolve"
          /\ server' = "undefined"
          /\ ~trackInfoListenerRegistered'
          /\ ipcListeners' = 0
      ]_vars

\* What holds of two stops on a listening server: the first resolves, the
\* second is rejected, and the handle and the listener are gone.
C14_FirstResolvesSecondRejects ==
    [][(/\ Len(closeCallbacks) >= 2
        /\ closeCallbacks[1] = "resolve"
        /\ closeCallbacks' = <<>>) =>
          /\ \A i \in 2..Len(closeCallbacks) : closeCallbacks[i] = "reject"
          /\ server' = "undefined"
          /\ ~trackInfoListenerRegistered'
          /\ ipcListeners' = 0
      ]_vars

\* Two stops on a listening server have settled.
C14_Witness ==
    /\ calls = <<Call("start", "created"), Call("stop", "waiting"),
                 Call("stop", "waiting"), Call("settle", "resolve"),
                 Call("settle", "reject")>>
    /\ server = "undefined"
    /\ ipcListeners = 0

\* C15: once a stopCommandServer call has completed successfully and until
\* startCommandServer is called again, no trackInfo listener is registered
\* and a trackInfo message leaves the host cache as it was.
C15_StoppedHearsNothing ==
    /\ [](Stopped => (ipcListeners = 0 /\ ~trackInfoListenerRegistered))
    /\ [][(Stopped /\ CalledOp("emit")) =>
             /\ Called(Call("emit", "unheard"))
             /\ UNCHANGED cacheVars
         ]_vars

\* A payload was cached, the server was stopped, and a later message left
\* the cache alone.
C15_Witness ==
    /\ calls = <<Call("start", "created"), Call("emit", "heard"),
                 Call("stop", "waiting"), Call("settle", "resolve"),
                 Call("emit", "unheard")>>
    /\ latestTrackInfo # Undefined
    /\ server = "undefined"

----------------------------------------------------------------------------
(* Publisher claims *)

\* The step is the end of a logTrackDetails call: only that shortens `pending`.
SettleStep == Len(pending') < Len(pending)

\* The step publishes from a handler other than logTrackDetails.
StatePublishStep ==
    /\ Len(pending') = Len(pending)
    /\ Len(trackInfoChannel') = Len(trackInfoChannel) + 1

\* The try block of logTrackDetails throws: a promise was rejected, or
\* playbackInfo is undefined at index.ts:169.
Throws(outcome) ==
    \/ \E a \in AccessorNames : outcome[a] = "rejected"
    \/ outcome["playbackInfo"] = "absent"

\* The last handler run was a logTrackDetails call that settled as `outcome`.
LastSettled(outcome) ==
    /\ calls # <<>>
    /\ calls[1].op = "settle"
    /\ calls[1].outcome = outcome

\* The payload field an accessor feeds.
DegradedField(a) ==
    CASE a = "album" -> "album"
      [] a = "artist" -> "artist"
      [] a = "coverUrl" -> "imgurl"
      [] a = "releaseDate" -> "releasedate"
      [] a = "isrc" -> "isrc"
      [] a = "title" -> "title"
      [] a = "playbackInfo" -> "audioquality"

IsDegraded(payload, a) ==
    IF a \in {"coverUrl"} THEN payload[DegradedField(a)] = <<>>
    ELSE IF a = "releaseDate" THEN payload[DegradedField(a)] = str_Unknown
    ELSE payload[DegradedField(a)] \in {"", "Unknown"}

\* C16: when the last logTrackDetails call ended with exactly one accessor
\* failed and the others resolved, it published a payload, which the renderer
\* holds, with the failed accessor's field degraded.
C16_SingleFailureDegrades ==
    \A a \in AccessorNames :
        LastSettled(OneSettles(a, "rejected")) =>
            /\ calls[1].result = "published"
            /\ heldTrackInfo # Undefined
            /\ IsDegraded(heldTrackInfo, a)

\* What the code does on a single absent value: an accessor other than title()
\* and getPlaybackInfo() that resolves to undefined degrades its field.
C16_AbsentDegrades ==
    \A a \in AccessorNames \ {"title", "playbackInfo"} :
        LastSettled(OneSettles(a, "absent")) =>
            /\ calls[1].result = "published"
            /\ heldTrackInfo # Undefined
            /\ IsDegraded(heldTrackInfo, a)

\* A call whose isrc() was rejected has ended and the renderer holds nothing.
C16_Witness ==
    /\ calls = <<Settled("failed", OneSettles("isrc", "rejected"))>>
    /\ heldTrackInfo = Undefined
    /\ trackInfoChannel = <<>>

\* C17: the end of a logTrackDetails call whose try block throws sends
\* nothing and leaves the renderer's held payload and the host cache as they
\* were.
C17_FailureKeepsHeld ==
    [][(SettleStep /\ Throws(calls'[1].outcome)) =>
          /\ calls'[1].result = "failed"
          /\ heldTrackInfo' = heldTrackInfo
          /\ trackInfoChannel' = trackInfoChannel
          /\ latestTrackInfo' = latestTrackInfo
      ]_vars

\* Track A was published, then a call for track B failed: the renderer still
\* holds track A.
C17_Witness ==
    /\ calls = <<Settled("failed", OneSettles("title", "rejected"))>>
    /\ heldTrackInfo # Undefined
    /\ heldTrackInfo.title = "Title A"
    /\ activeMediaItem = ItemB.id
    /\ trackInfoChannel = <<>>

\* C18: while the renderer holds no payload, a step other than the end of a
\* logTrackDetails call (a playback-state change among them) leaves the held
\* payload undefined and sends nothing.
C18_StateChangeDropped ==
    [][(heldTrackInfo = Undefined /\ ~SettleStep) =>
          /\ heldTrackInfo' = Undefined
          /\ trackInfoChannel' = trackInfoChannel
      ]_vars

\* A playback-state change arrived while a track change was still resolving.
C18_Witness ==
    /\ calls = <<Call("state", "dropped")>>
    /\ heldTrackInfo = Undefined
    /\ trackInfoChannel = <<>>
    /\ pending # <<>>

\* C19: a playback-state change while the renderer holds a payload keeps
\* every metadata field, stamps the payload with the current time, holds the
\* merged payload and sends it.
C19_StateChangeMerges ==
    [][(heldTrackInfo # Undefined /\ StatePublishStep) =>
          /\ DOMAIN heldTrackInfo' = DOMAIN heldTrackInfo
          /\ \A f \in MetadataFields : heldTrackInfo'[f] = heldTrackInfo[f]
          /\ heldTrackInfo'.status \in {"PLAYING", "PAUSED"}
          /\ heldTrackInfo'.positionUpdatedAt = JsNum(now)
          /\ trackInfoChannel' = Append(trackInfoChannel, heldTrackInfo')
      ]_vars

\* The payload of a track change is in flight with its update behind it: the
\* same metadata, a new status, position and stamp.
C19_Witness ==
    /\ calls = <<Call("state", "published")>>
    /\ Len(trackInfoChannel) = 2
    /\ trackInfoChannel[2] = heldTrackInfo
    /\ \A f \in MetadataFields : trackInfoChannel[1][f] = heldTrackInfo[f]
    /\ trackInfoChannel[1].status = "PLAYING" /\ heldTrackInfo.status = "PAUSED"
    /\ trackInfoChannel[1].positionSeconds = 500 /\ heldTrackInfo.positionSeconds = 0
    /\ trackInfoChannel[1].positionUpdatedAt = JsNum(0)
    /\ heldTrackInfo.positionUpdatedAt = JsNum(TickMs)

\* C20: a trackInfo message delivered a second time leaves the host cache as
\* the first delivery left it, and once the renderer's last publish has
\* reached the host the cache is the renderer's held payload.
C20_CacheFollowsPublisher ==
    /\ [](\A i \in 1..Len(trackInfoChannel) :
            LET once == trackInfoListener(latestTrackInfo, trackInfoChannel[i])
            IN  trackInfoListener(once, trackInfoChannel[i]) = once)
    /\ [](heardLatest => latestTrackInfo = heldTrackInfo)
    /\ [][(trackInfoChannel' = trackInfoChannel /\ latestTrackInfo' # latestTrackInfo)
            => latestTrackInfo' = Head(trackInfoChannel)]_vars

\* An older message was lost or delivered, the last one was delivered and
\* stays in flight to be delivered again.
C20_Witness ==
    /\ heardLatest
    /\ trackInfoChannel = <<heldTrackInfo>>
    /\ latestTrackInfo = heldTrackInfo
    /\ heldTrackInfo.status = "PAUSED"

----------------------------------------------------------------------------
(* Claims on what an info read returns and leaves behind *)

\* C21: a successful info response has the fields of the cached payload and,
\* in every field other than positionSeconds (status, positionUpdatedAt and
\* the metadata), the value of the last payload received.
C21_ResponseIsCacheButPosition ==
    InfoRead =>
        /\ latestTrackInfo = lastReceived
        /\ DOMAIN lastResponse.body = DOMAIN lastReceived
        /\ \A field \in DOMAIN lastReceived \ {"positionSeconds"} :
               lastResponse.body[field] = lastReceived[field]

\* An extrapolated read: the position returned is not the cached one, while
\* the status and the stamp returned are.
C21_Witness ==
    /\ InfoRead /\ Extrapolated
    /\ lastResponse.body.positionSeconds # lastReceived.positionSeconds
    /\ lastResponse.body.status = "PLAYING"
    /\ lastResponse.body.positionUpdatedAt = lastReceived.positionUpdatedAt
    /\ lastResponse.body.title = lastReceived.title

\* C22: an info read changes neither the cache (positionSeconds and
\* positionUpdatedAt included) nor the channel to the renderer; a read at the
\* time of the read before it returns the same response; and a read that
\* extrapolates adds the time elapsed since the stamp to the position last
\* received, whatever position an earlier read returned.
C22_InfoReadIsPure ==
    [][(Handled /\ IsInfoToken(TokenOf(lastRequest'.query))) =>
          /\ UNCHANGED <<cacheVars, commandChannel, hostVars>>
          /\ (InfoRead /\ lastRequest.at = now) => lastResponse' = lastResponse
          /\ (lastReceived # Undefined /\ Extrapolated' /\ ~DurationKnown) =>
                lastResponse'.body.positionSeconds * MsPerSecond =
                    lastReceived.positionSeconds * MsPerSecond
                    + (now - lastReceived.positionUpdatedAt.v) * FixedScale]_vars

\* The second of two reads of a playing payload of unknown duration, two ticks
\* after the stamp: it returns the position received plus the two ticks, and
\* the cache still holds the position received.
C22_Witness ==
    /\ InfoRead /\ reqCount = 2 /\ Extrapolated /\ ~DurationKnown
    /\ lastRequest.at = 2 * TickMs
    /\ latestTrackInfo.positionUpdatedAt.v = 0
    /\ latestTrackInfo = lastReceived
    /\ lastResponse.body.positionSeconds * MsPerSecond =
           lastReceived.positionSeconds * MsPerSecond + 2 * TickMs * FixedScale

----------------------------------------------------------------------------
(* Claim on the renderer's dispatcher *)

\* C23: every message handled clicked the button of the first selector, in
\* the order of the command's table, that matches a button of the document,
\* and no other; when no selector of the table matches nothing was clicked;
\* and a missing command clicks nothing on this document.
C23_ClicksFirstMatchOnly ==
    /\ Len(clicked) = commandsHandled
    /\ \A i \in 1..Len(clicked) :
          LET table == remoteCommandSelectors(commandChannel[i].command)
              selector == clicked[i].selector
          IN  IF \E k \in 1..Len(table) : table[k] \in dom
              THEN \E k \in 1..Len(table) :
                      /\ table[k] = selector
                      /\ selector \in dom
                      /\ \A j \in 1..(k - 1) : table[j] \notin dom
              ELSE selector = "none"
    /\ remoteCommandClick(NoCommand, dom) = "none"

\* A playtoggle on a document where the third and the fourth selector of the
\* table match: the button of the third is the one clicked.
C23_Witness ==
    /\ commandsHandled = 1
    /\ commandChannel[1].command = "playtoggle"
    /\ "button[data-test=\"play-toggle\"]" \notin dom
    /\ "button[data-test=\"play\"]" \notin dom
    /\ "button[aria-label=\"Play\"]" \in dom
    /\ clicked[1].selector = "button[data-test=\"pause\"]"

----------------------------------------------------------------------------
(* Claims on the publisher's order of events *)

\* Both track changes happened and both logTrackDetails calls ran to their
\* end.
BothBuilt == activeMediaItem = ItemB.id /\ pending = <<>>

\* C24 as stated: after a track change to ItemA followed by one to ItemB,
\* once both snapshot builds have succeeded the payload held by the renderer,
\* which is the last one published, describes ItemB, and so does the host
\* cache once the channel is empty, in whichever order the builds settled.
C24_LatestTrackWins ==
    BothBuilt =>
        /\ heldTrackInfo.trackid = String(ItemB.id)
        /\ trackInfoChannel = <<>> => latestTrackInfo.trackid = String(ItemB.id)

\* The build for ItemB settled before the build for ItemA: the renderer holds
\* and the host caches the payload of ItemA while ItemB is the active item.
C24_Witness ==
    /\ BothBuilt
    /\ trackInfoChannel = <<>>
    /\ heldTrackInfo.trackid = String(ItemA.id)
    /\ heldTrackInfo.title = ItemA.title
    /\ latestTrackInfo = heldTrackInfo

\* The step sends a message on the trackInfo channel.
Sends == Len(trackInfoChannel') = Len(trackInfoChannel) + 1

\* The held payload is undefined only while nothing was sent, and the newest
\* message in flight is the held payload; a step that changes the held
\* payload sends the new value as its one message.
HeldIsLastSent ==
    /\ [](heldTrackInfo = Undefined => trackInfoChannel = <<>>)
    /\ [](trackInfoChannel # <<>> =>
              trackInfoChannel[Len(trackInfoChannel)] = heldTrackInfo)
    /\ [][heldTrackInfo' # heldTrackInfo =>
              trackInfoChannel' = Append(trackInfoChannel, heldTrackInfo')]_vars

\* C25 as stated: the held payload is undefined or the payload of the most
\* recent send; every change of the held payload comes with exactly one send
\* of the new value, and no send happens without a change of the held value.
C25_SendIffHeldChanges ==
    /\ HeldIsLastSent
    /\ [][Sends => heldTrackInfo' # heldTrackInfo]_vars

\* C25 as amended: the held payload is undefined or the payload of the most
\* recent send; every change of the held payload comes with exactly one send
\* of the new value, and every send is of the value held after it, which may
\* equal the value held before.
C25_SendIsOfHeld ==
    /\ HeldIsLastSent
    /\ [][Sends => trackInfoChannel' = Append(trackInfoChannel, heldTrackInfo')]_vars

\* Two sends in flight, the second of a payload equal to the one already
\* held: a state change reported twice within one millisecond.
C25_Witness ==
    /\ Len(trackInfoChannel) = 2
    /\ trackInfoChannel[1] = trackInfoChannel[2]
    /\ trackInfoChannel[2] = heldTrackInfo
    /\ calls = <<Call("state", "published")>>

----------------------------------------------------------------------------
(* Claim on the renderer's position computation, under SpecElapsed: calls *)
(* holds the last call of computeElapsedSeconds                           *)

\* latestCurrentTime of the last call, 0 when it is undefined.
BaseSeconds ==
    IF calls[1].playState.playbackControls.latestCurrentTime.kind = "undefined"
    THEN JsNum(0)
    ELSE calls[1].playState.playbackControls.latestCurrentTime

\* The last call had state PLAYING and a sync timestamp later than its time.
FutureStamp ==
    /\ calls[1].playState.playbackControls.playbackState = "PLAYING"
    /\ calls[1].playState.playbackControls.latestCurrentTimeSyncTimestamp.kind = "num"
    /\ calls[1].playState.playbackControls.latestCurrentTimeSyncTimestamp.v > calls[1].at

\* C26 as stated: with state PLAYING and a sync timestamp later than now the
\* elapsed time counts as 0 and the result is latestCurrentTime; with a state
\* other than PLAYING the result is latestCurrentTime whatever the timestamp.
C26_FutureStampCountsAsZero ==
    calls # <<>> =>
        /\ FutureStamp => calls[1].result = BaseSeconds
        /\ calls[1].playState.playbackControls.playbackState # "PLAYING"
              => calls[1].result = BaseSeconds

\* C26, what the code does: with state PLAYING and a sync timestamp later
\* than now the result is the live clock PlayState.currentTime when that is
\* finite and latestCurrentTime otherwise; with a state other than PLAYING
\* the result is latestCurrentTime.
C26_FutureStampReadsLiveClock ==
    calls # <<>> =>
        /\ FutureStamp =>
              calls[1].result = IF calls[1].playState.currentTime.kind = "num"
                                THEN calls[1].playState.currentTime
                                ELSE BaseSeconds
        /\ calls[1].playState.playbackControls.playbackState # "PLAYING"
              => calls[1].result = BaseSeconds

\* PLAYING at 0.5 s with a sync timestamp one tick ahead of the call and a
\* live clock of 0.7 s: the result is 0.7 s.
C26_Witness ==
    /\ calls # <<>> /\ FutureStamp
    /\ calls[1].at = 0
    /\ calls[1].playState.playbackControls.latestCurrentTimeSyncTimestamp = JsNum(TickMs)
    /\ calls[1].playState.playbackControls.latestCurrentTime = JsNum(500)
    /\ calls[1].playState.currentTime = JsNum(700)
    /\ calls[1].result = JsNum(700)

----------------------------------------------------------------------------
(* Claims on the listener registration and on calls that overlap *)

\* C27: in every state reached by start and stop calls, the trackInfo
\* listener is registered exactly when a server handle exists, the flag
\* agrees with the registrations of ipcMain, and at most one is registered.
C27_ListenerIffHandle ==
    /\ trackInfoListenerRegistered <=> (server # "undefined")
    /\ trackInfoListenerRegistered <=> (ipcListeners = 1)
    /\ ipcListeners \in {0, 1}

\* A server started again after a completed stop: the handle exists and one
\* listener is registered.
C27_Witness ==
    /\ calls = <<Call("start", "created"), Call("stop", "waiting"),
                 Call("settle", "resolve"), Call("start", "created")>>
    /\ server = "Server"
    /\ trackInfoListenerRegistered
    /\ ipcListeners = 1

\* C28: a startCommandServer call made while a stopCommandServer call waits
\* for "close" returns without creating a server or registering a listener;
\* when that stop then completes, no server is listening, no handle exists
\* and no listener is registered.
C28_StartDuringStopIsLost ==
    /\ [][(CalledOp("start") /\ closeCallbacks # <<>>) =>
              /\ Called(Call("start", "returned"))
              /\ UNCHANGED hostVars]_vars
    /\ [][(/\ \E i \in 1..Len(closeCallbacks) : closeCallbacks[i] = "resolve"
           /\ closeCallbacks' = <<>>) =>
              /\ server' = "undefined"
              /\ ~portBound'
              /\ ~trackInfoListenerRegistered'
              /\ ipcListeners' = 0]_vars

\* start, stop, start before "close", then the stop completes: nothing
\* listens although start was the last call.
C28_Witness ==
    /\ calls = <<Call("start", "created"), Call("stop", "waiting"),
                 Call("start", "returned"), Call("settle", "resolve")>>
    /\ server = "undefined"
    /\ ~portBound
    /\ ipcListeners = 0

\* A server whose listen failed, with no stop waiting but rejected ones.
BindFailed ==
    /\ server = "Server"
    /\ ~portBound
    /\ \A i \in 1..Len(closeCallbacks) : closeCallbacks[i] = "reject"

\* C29: when the close callbacks report an error, the waiting stop calls
\* reject and the handle and the listener stay; from then on a start returns
\* at once changing nothing and a stop waits for a callback that reports the
\* error again.
C29_FailedCloseIsPermanent ==
    [][BindFailed =>
          /\ BindFailed'
          /\ trackInfoListenerRegistered' /\ ipcListeners' = 1
          /\ CalledOp("start") =>
                Called(Call("start", "returned")) /\ UNCHANGED hostVars
          /\ CalledOp("stop") =>
                /\ Called(Call("stop", "waiting"))
                /\ closeCallbacks' = Append(closeCallbacks, "reject")
          /\ (closeCallbacks # <<>> /\ closeCallbacks' = <<>>) =>
                calls' = calls \o [i \in 1..Len(closeCallbacks) |->
                                       Call("settle", "reject")]]_vars

\* A server that did not bind: the stop rejects, the start after it returns
\* at once and the next stop waits for the same error.
C29_Witness ==
    /\ calls = <<Call("start", "created"), Call("stop", "waiting"),
                 Call("settle", "reject"), Call("start", "returned"),
                 Call("stop", "waiting")>>
    /\ server = "Server"
    /\ trackInfoListenerRegistered
    /\ closeCallbacks = <<"reject">>

----------------------------------------------------------------------------
(* Claim on successive info reads of one cached payload, under SpecEstimate *)

\* The step is an info read that follows an earlier one; the cache is the
\* same for both and the time of the second is no earlier than the first's.
ReadAgain == Handled /\ InfoRead /\ lastResponse'.code = 200

\* The position returned by the second read is no smaller than that of the
\* first, and a first position equal to a known positive duration is returned
\* again.
NeverBackward ==
    /\ lastResponse.body.positionSeconds <= lastResponse'.body.positionSeconds
    /\ (DurationKnown /\ lastResponse.body.positionSeconds = CachedDuration) =>
           lastResponse'.body.positionSeconds = CachedDuration

\* C30 as stated: for every cached payload and read times now1 <= now2 the
\* position returned at now1 is no greater than the one returned at now2, and
\* a returned position that has reached a known positive duration stays there.
C30_ReadsNeverGoBack ==
    [][ReadAgain => NeverBackward]_vars

\* The cached position is above the known positive duration.
AboveDuration == DurationKnown /\ latestTrackInfo.positionSeconds > CachedDuration

\* The two reads lie on either side of the stamp of a playing payload cached
\* above its duration: the first at or before positionUpdatedAt, the second
\* after it.
AcrossStamp ==
    /\ latestTrackInfo.status = "PLAYING"
    /\ latestTrackInfo.positionUpdatedAt.kind = "num"
    /\ AboveDuration
    /\ lastRequest.at <= latestTrackInfo.positionUpdatedAt.v
    /\ lastRequest'.at > latestTrackInfo.positionUpdatedAt.v

\* C30 as amended: two successive reads never go backward and a position
\* that reached the duration stays there, for every payload and every pair
\* of read times but one: on a playing payload with a numeric stamp, cached
\* above its known positive duration, the read at or before the stamp returns
\* the cached position and the read after the stamp returns the duration.
C30_ReadsGoBackOnlyAcrossStamp ==
    [][ReadAgain =>
          IF AcrossStamp
          THEN /\ lastResponse.body.positionSeconds = latestTrackInfo.positionSeconds
               /\ lastResponse'.body.positionSeconds = CachedDuration
          ELSE NeverBackward]_vars

\* The second of two reads of a playing payload cached above its duration
\* and stamped two clock steps after the start, made after the stamp: the
\* duration is returned.
C30_Witness ==
    /\ InfoRead /\ reqCount = 2
    /\ Extrapolated /\ AboveDuration
    /\ latestTrackInfo.positionUpdatedAt.v = 2 * TickMs
    /\ lastResponse.body.positionSeconds = CachedDuration

----------------------------------------------------------------------------
(* Claim on info requests and the renderer window, under SpecQuery: one   *)
(* request, on either cache, with and without a window                    *)

\* C31: the answer to a request whose token is "info" in any letter case is
\* given by the cache alone, 404 UNKNOWN without a payload and 200 with the
\* cached payload (which is paused), with and without a renderer window; it
\* is never 503, and nothing is sent on the command channel.
C31_InfoIgnoresWindow ==
    (reqCount > 0 /\ IsInfoToken(TokenOf(lastRequest.query))) =>
        /\ lastResponse.code # 503
        /\ IF latestTrackInfo = Undefined
           THEN /\ lastResponse.code = 404
                /\ lastResponse.body = [status |-> "UNKNOWN", message |-> "No track data"]
           ELSE /\ lastResponse.code = 200
                /\ lastResponse.body = latestTrackInfo
        /\ commandChannel = <<>>
        /\ refused = {}

\* "INFO" in upper case, asked without a renderer window and with a payload
\* cached: answered 200 with the payload.
C31_Witness ==
    /\ reqCount = 1
    /\ ~tidalWindow
    /\ lastRequest.query.cmd = QString(<<"I", "N", "F", "O">>)
    /\ lastResponse.code = 200
    /\ lastResponse.body = latestTrackInfo
    /\ commandChannel = <<>>

====
